---- MODULE Spec2Model ----
(***************************************************************************)
(* A model of script-gateway's marshal -> execute -> classify pipeline     *)
(* (src/src/services/executor.py, src/media_middleware.py,                 *)
(* src/src/core/error_handler.py, src/database.py), of its per-script      *)
(* dependency cache (src/src/utils/deps.py) and of its script scanner.     *)
(*                                                                         *)
(* Five specifications share the variables:                                *)
(*   Spec         run_script / terminate_script threads, child processes,  *)
(*                the running-jobs registry and the run ledger;            *)
(*   SpecDeps     install requests, package-manager processes and the      *)
(*                cache directory tree;                                    *)
(*   SpecScan     the scanner thread (src/src/services/scanner.py), the    *)
(*                script files it walks and the scripts table;             *)
(*   SpecMarshal  build_cli_args applied to bounded schemas and maps;      *)
(*   SpecHash     calculate_deps_hash applied to bounded dependency lists. *)
(***************************************************************************)
EXTENDS Integers, Sequences, FiniteSets, TLC

VARIABLES
    \* ---- executor (Spec) ----
    pc,                 \* thread -> position inside run_script
    job,                \* thread -> locals of the current run_script call
    child,              \* attempt -> the child process of that attempt
    waited,             \* attempt -> time spent blocked in communicate()
    running_processes,  \* script id -> attempt whose handle is registered
    runs,               \* the runs table: sequence of rows, in insert order
    status_last_run,    \* script id -> scripts.status_last_run
    output_files,       \* files written by save_binary_output
    results,            \* attempt -> what run_script returned
    request,            \* attempt -> what the model remembers of the call's inputs
    tpc,                \* position of the operator inside terminate_script
    tjob,               \* locals of the current terminate_script call
    tresults,           \* results returned by terminate_script, in order
    \* ---- dependency cache (SpecDeps) ----
    dpc,                \* worker -> position inside an install request
    djob,               \* worker -> locals of the current install request
    cache_dirs,         \* cache path -> contents of the directory (or NoDir)
    pms,                \* package-manager processes started so far, each with its starter
    answer,             \* the answer last handed to a caller, with what held at that moment
    ninstalls,          \* number of install requests made so far
    last_install,       \* cache path -> how the last finished install of it ended
    \* ---- scanner (SpecScan) ----
    files,              \* script path -> the file: content version, readable or not
    sidecars,           \* script path -> the text of its ._map.json sidecar (or None)
    scripts_table,      \* the scripts table: filename -> row (or NoScript)
    spc,                \* position of the scanner thread
    sjob,               \* locals of scan_once / parse_and_register
    nscans,             \* scans started so far
    nedits,             \* changes made to the script files so far
    scan_log,           \* what the model remembers of the scans
    served,             \* what the model remembers of the last run request of the API
    \* ---- pure functions (SpecMarshal, SpecHash) ----
    m_in,               \* the schema under test and the parameter map last passed
    m_out,              \* build_cli_args outputs seen for the orders of that map
    h_in,               \* the dependency list last passed to calculate_deps_hash
    h_out,              \* cache paths seen for the orders of that list
    \* ---- child environments (SpecEnv) ----
    e_in,               \* the script and the ambient environment of the server
    e_out,              \* how each way of starting the script's child was given cwd and env
    \* ---- waits on a child process (SpecWait) ----
    wop,                \* the operation that waits
    wpc,                \* its position
    wchild,             \* the child: running or exited, exit code, who holds its pipes
    wclock,             \* time spent in the current wait
    wresult,            \* what the operation returned, with what held at that moment
    \* ---- cache eviction (SpecClean) ----
    k_in,               \* the cache directories' listing and the retention horizon
    k_out,              \* the listing after cleanup_cache, and its report
    \* ---- catalog and ledger rows (SpecCatalog) ----
    catalog,            \* the rows of the scripts table
    ledger,             \* the rows of the runs table
    disk,               \* the script files present in the script directories
    reg,                \* registrar -> position and locals inside parse_and_register
    flight,             \* the script row an execution in flight was started with
    cat                 \* counters: next AUTOINCREMENT id, clock, passes, deletes, patches

exec_vars == <<pc, job, child, waited, running_processes, runs, status_last_run,
               output_files, results, request, tpc, tjob, tresults>>
deps_vars == <<dpc, djob, cache_dirs, pms, answer, ninstalls, last_install>>
scan_vars == <<files, sidecars, scripts_table, spc, sjob, nscans, nedits, scan_log, served>>
wait_vars == <<wop, wpc, wchild, wclock, wresult>>
clean_vars == <<k_in, k_out>>
cat_vars == <<catalog, ledger, disk, reg, flight, cat>>
rest_vars == <<wait_vars, clean_vars, cat_vars>>
pure_vars == <<m_in, m_out, h_in, h_out, e_in, e_out, rest_vars>>
vars == <<exec_vars, deps_vars, scan_vars, pure_vars>>

\* Python's None, for fields that hold strings or records.
None == "None"
\* Python's None, for fields that hold integers.
NoInt == 0 - 1

Min(a, b) == IF a <= b THEN a ELSE b

Range(s) == {s[i] : i \in 1..Len(s)}

\* All sequences without repetition over a finite set, of length <= n.
RECURSIVE Arrangements(_, _)
Arrangements(S, n) ==
    IF n = 0 \/ S = {} THEN {<<>>}
    ELSE {<<>>} \cup UNION {{<<x>> \o r : r \in Arrangements(S \ {x}, n - 1)} : x \in S}

\* All permutations of a sequence (as sequences).
Perms(s) ==
    {[i \in 1..Len(s) |-> s[f[i]]] :
        f \in {g \in [1..Len(s) -> 1..Len(s)] : \A i, j \in 1..Len(s) : g[i] = g[j] => i = j}}

(***************************************************************************)
(* Argument marshaler: build_cli_args                                      *)
(***************************************************************************)

\* A ParamSpec as the schema JSON holds it.
ParamSpecOf(name, typ, required) ==
    [name |-> name, flag |-> "--" \o name, type |-> typ, required |-> required]

\* http_params is a dict: a sequence of <<key, value>> pairs in insertion
\* order, keys distinct.  dict.get(name) returns None for an absent key.
DictGet(d, name) ==
    IF \E i \in 1..Len(d) : d[i][1] = name
    THEN LET i == CHOOSE k \in 1..Len(d) : d[k][1] = name IN d[i][2]
    ELSE None

DictHas(d, name) == \E i \in 1..Len(d) : d[i][1] = name

\* int(val) followed by str(): defined on decimal literals only.
IntLiterals == {"5", "7", "05", "1", "0"}
StrOfInt(val) == IF val = "05" THEN "5" ELSE val

\* float(val) followed by str().
FloatLiterals == IntLiterals \cup {"2.5"}
StrOfFloat(val) == IF val \in IntLiterals THEN StrOfInt(val) \o ".0" ELSE val

\* val.lower() in ['true', '1', 'yes'], then 1 if val else 0.
Lower(val) ==
    CASE val = "TRUE" -> "true"
      [] val = "True" -> "true"
      [] val = "Yes" -> "yes"
      [] OTHER -> val
\* A plausible bug: the comparison without lower().
StrOfBoolCaseSensitive(val) == IF val \in {"true", "1", "yes"} THEN "1" ELSE "0"
StrOfBool(val) == IF Lower(val) \in {"true", "1", "yes"} THEN "1" ELSE "0"

MarshalOk(cli, eff) ==
    [ok |-> TRUE, cli |-> cli, effective |-> eff, error |-> None, arg |-> None]
MarshalError(msg, arg) ==
    [ok |-> FALSE, cli |-> <<>>, effective |-> <<>>, error |-> msg, arg |-> arg]

\* The loop of build_cli_args from schema position i on.
RECURSIVE BuildFrom(_, _, _, _, _)
BuildFrom(args_schema, http_params, i, cli, effective) ==
    IF i > Len(args_schema) THEN MarshalOk(cli, effective)
    ELSE
        LET meta == args_schema[i]
            val  == DictGet(http_params, meta.name)
        IN  IF val = None
            THEN IF meta.required
                 THEN MarshalError("missing required param", meta.name)
                 ELSE BuildFrom(args_schema, http_params, i + 1, cli, effective)
            ELSE IF meta.type = "int" /\ val \notin IntLiterals
                 THEN MarshalError("invalid literal for int()", val)
            ELSE IF meta.type = "float" /\ val \notin FloatLiterals
                 THEN MarshalError("could not convert string to float", val)
            ELSE LET tok == CASE meta.type = "int" -> StrOfInt(val)
                              [] meta.type = "float" -> StrOfFloat(val)
                              [] meta.type = "bool" -> StrOfBool(val)
                              [] OTHER -> val
                 IN  BuildFrom(args_schema, http_params, i + 1,
                               cli \o <<meta.flag, tok>>,
                               Append(effective, <<meta.name, tok>>))

\* A plausible bug: walk the parameter map in its own order instead of the schema's.
RECURSIVE BuildFromMap(_, _, _, _)
BuildFromMap(args_schema, http_params, i, cli) ==
    IF i > Len(http_params) THEN MarshalOk(cli, <<>>)
    ELSE LET metas == {k \in 1..Len(args_schema) : args_schema[k].name = http_params[i][1]}
         IN  IF metas = {} THEN BuildFromMap(args_schema, http_params, i + 1, cli)
             ELSE LET meta == args_schema[CHOOSE k \in metas : TRUE]
                  IN  BuildFromMap(args_schema, http_params, i + 1,
                                   cli \o <<meta.flag, http_params[i][2]>>)
build_cli_args_map_order(args_schema, http_params) ==
    BuildFromMap(args_schema, http_params, 1, <<>>)

build_cli_args(args_schema, http_params) ==
    BuildFrom(args_schema, http_params, 1, <<>>, <<>>)


(***************************************************************************)
(* Executor: run_script / _execute_script / terminate_script               *)
(*                                                                         *)
(* Two callers enter run_script, each once, at any time relative to the    *)
(* other; one operator calls terminate_script.  Every Python statement     *)
(* that reads or writes shared state (the registry, the tables, the child) *)
(* is a step of its own.  The tables are taken to work: the only           *)
(* exceptions raised after the spawn step are those of Popen, of           *)
(* save_binary_output and of send_notify.                                  *)
(***************************************************************************)

\* Bound of the executor model: terminate_script calls made in one run.
MaxTerminates == 1

\* Config.TIMEOUT_MIN, in ticks of the model's clock.
TIMEOUT_MIN == 1
\* The grace period of proc.wait(timeout=5) in terminate_script, in ticks.
GRACE == 1
\* The preview bound of text[:1000].
PREVIEW_LEN == 1000

\* The threads that call run_script; an attempt is named by its thread.
Threads == {"t1", "t2"}
Scripts == {1, 2}
NoAttempt == "nobody"

\* The catalog rows run_script is called with: script 1 has notify_enabled = 1.
ScriptRow(s) ==
    [id |-> s, script_type |-> IF s = 1 THEN "python" ELSE "js",
     notify_enabled |-> IF s = 1 THEN 1 ELSE 0]

\* What a child can write to stdout: a byte string with its length, whether it
\* decodes as UTF-8, and the JSON document it encodes (None when it is not JSON).
OutJsonShort == [id |-> "json_short", len |-> 7, utf8 |-> TRUE, doc |-> "doc_a1"]
OutJsonLong  == [id |-> "json_long", len |-> 1001, utf8 |-> TRUE, doc |-> "doc_big"]
OutBytes     == [id |-> "bytes", len |-> 3, utf8 |-> FALSE, doc |-> None]
Outputs == {OutJsonShort, OutJsonLong, OutBytes}
\* The empty stdout of a child that fails or is killed.
OutPlain     == [id |-> "plain", len |-> 0, utf8 |-> TRUE, doc |-> None]

\* The ways a child can end on its own: exit code, stdout, stderr.
ChildEnds ==
    {[rc |-> 0, out |-> o, err |-> "none"] : o \in Outputs}
    \cup {[rc |-> 1, out |-> OutPlain, err |-> "boom"]}

NoChild == [state |-> "none", rc |-> NoInt, out |-> OutPlain, err |-> "none"]

\* out.decode('utf-8') followed by json.loads(text): the document, or None on failure.
json_loads(out) == IF out.utf8 THEN out.doc ELSE None

\* text[:1000] of the decoded stdout.
Preview(out) == [id |-> out.id, len |-> Min(out.len, PREVIEW_LEN)]

NoPreview == [id |-> None, len |-> 0]

\* The schemas and parameter maps the callers use.
SchemaAN == <<ParamSpecOf("a", "int", FALSE), ParamSpecOf("n", "int", TRUE)>>
SchemaFN == <<ParamSpecOf("f", "file", FALSE), ParamSpecOf("n", "int", TRUE)>>
SchemaNM == <<ParamSpecOf("n", "int", TRUE), ParamSpecOf("m", "str", TRUE)>>
SchemaNF == <<ParamSpecOf("n", "int", TRUE), ParamSpecOf("f", "file", FALSE)>>
\* The (schema, parameter map) pairs run_script is called with.
ExecRequests ==
    {<<SchemaAN, <<<<"n", "5">>>>>>,
     <<SchemaAN, <<>>>>,
     <<SchemaAN, <<<<"a", "x">>>>>>,
     <<SchemaFN, <<<<"f", "u">>, <<"n", "5">>>>>>,
     <<SchemaNF, <<<<"f", "u">>>>>>,
     <<SchemaNM, <<>>>>}

\* No output locator; no error message.
NoUrl == <<>>
NoError == <<>>

\* Locals of one run_script call.
NoJob ==
    [script |-> 0, schema |-> <<>>, params |-> <<>>, cli |-> <<>>,
     path |-> "none", exc |-> None, rc |-> NoInt, out |-> OutPlain, err |-> "none",
     status |-> 2, stdout_preview |-> NoPreview, stderr_text |-> None,
     output_file_url |-> NoUrl, duration_ms |-> NoInt, result |-> None]

\* The result dictionaries _execute_script and handle_script_errors return.
ResultOf(status, code, duration, data, typ, url, size, stderr, run_id, error, traceback) ==
    [status |-> status, code |-> code, duration_ms |-> duration, data |-> data,
     type |-> typ, url |-> url, size |-> size, stderr |-> stderr, run_id |-> run_id,
     error |-> error, traceback |-> traceback]

\* run_script has not returned yet.
NoResult ==
    ResultOf("pending", NoInt, NoInt, None, None, NoUrl, NoInt, None, NoInt, NoError, FALSE)

\* ScriptError.to_dict() as handle_script_errors returns it for a ScriptError.
ValidationResult(msg) ==
    ResultOf(None, 500, NoInt, None, None, NoUrl, NoInt, None, NoInt, msg, FALSE)
\* handle_script_errors' answer to any other exception: message and traceback.
SystemResult(msg) ==
    ResultOf(None, 500, NoInt, None, None, NoUrl, NoInt, None, NoInt, msg, TRUE)

\* runs table row; att is the attempt that wrote it (bookkeeping of the model).
RunRow(att, script_id, duration, status, preview, stderr, url) ==
    [att |-> att, script_id |-> script_id, duration_ms |-> duration, status |-> status,
     stdout_preview |-> preview, stderr |-> stderr, output_file_url |-> url]

RowsOf(a) == {i \in 1..Len(runs) : runs[i].att = a}

\* The types process_script_params resolves to a local file.
MediaTypes == {"audio", "video", "media", "file"}

\* The positions of the media-typed parameters of the schema that the map holds.
MediaParams(schema, params) ==
    {i \in 1..Len(schema) : schema[i].type \in MediaTypes /\ DictHas(params, schema[i].name)}

\* The schema positions of the required parameters a map lacks.
MissingRequired(schema, params) ==
    {k \in 1..Len(schema) : schema[k].required /\ ~DictHas(params, schema[k].name)}

\* What the model remembers of a call whose map lacks required parameters: the
\* names it lacks, the first of them in declaration order, the parameters
\* declared before that one that the map holds, and the media parameters the
\* map holds; of every call, whether the wait on the child has expired and how
\* many children it has started.
NoRequest ==
    [missing |-> {}, first |-> None, earlier |-> {}, media |-> {}, expired |-> FALSE,
     spawns |-> 0]
RequestOf(schema, params) ==
    LET missing == MissingRequired(schema, params)
        first == CHOOSE k \in missing : \A l \in missing : k <= l
    IN  IF missing = {} THEN NoRequest
        ELSE [missing |-> {schema[k].name : k \in missing},
              first |-> schema[first].name,
              earlier |-> {schema[k].name : k \in {l \in 1..Len(schema) :
                                                     l < first /\ DictHas(params, schema[l].name)}},
              media |-> {schema[k].name : k \in MediaParams(schema, params)},
              expired |-> FALSE,
              spawns |-> 0]

InitExec ==
    /\ pc = [t \in Threads |-> "idle"]
    /\ job = [t \in Threads |-> NoJob]
    /\ request = [t \in Threads |-> NoRequest]
    /\ child = [a \in Threads |-> NoChild]
    /\ waited = [a \in Threads |-> 0]
    /\ running_processes = [s \in Scripts |-> NoAttempt]
    /\ runs = <<>>
    /\ status_last_run = [s \in Scripts |-> 0]
    /\ output_files = {}
    /\ results = [a \in Threads |-> NoResult]
    /\ tpc = "idle"
    /\ tjob = [script |-> 0, proc |-> NoAttempt]
    /\ tresults = <<>>

\* run_script returns r to the caller of thread t.
Return(t, r) ==
    /\ results' = [results EXCEPT ![t] = r]
    /\ pc' = [pc EXCEPT ![t] = "done"]
    /\ job' = [job EXCEPT ![t] = NoJob]

\* The second thread is used once the first has been.
ThreadRank(t) == IF t = "t1" THEN 1 ELSE 2

\* A caller enters run_script(script, args_schema, http_params).
Call(t, s, schema, params) ==
    /\ pc[t] = "idle"
    /\ \A u \in Threads : ThreadRank(u) < ThreadRank(t) => pc[u] # "idle"
    /\ job' = [job EXCEPT ![t] = [NoJob EXCEPT !.script = s, !.schema = schema, !.params = params]]
    /\ request' = [request EXCEPT ![t] = RequestOf(schema, params)]
    /\ pc' = [pc EXCEPT ![t] = "media"]
    /\ UNCHANGED <<child, waited, running_processes, runs, status_last_run,
                   output_files, results, tpc, tjob, tresults>>

\* A plausible bug: a parameter that could not be resolved is passed on as it is.
MediaSwallowsFailure(t) ==
    /\ pc[t] = "media"
    /\ LET j == job[t]
           ms == MediaParams(j.schema, j.params)
       IN  \E okay \in BOOLEAN :
             /\ (ms = {}) => okay
             /\ job' = [job EXCEPT ![t].params =
                          [i \in 1..Len(j.params) |->
                             IF okay /\ \E k \in ms : j.schema[k].name = j.params[i][1]
                             THEN <<j.params[i][1], "/local/path">>
                             ELSE j.params[i]]]
             /\ pc' = [pc EXCEPT ![t] = "marshal"]
             /\ UNCHANGED results
    /\ UNCHANGED <<request, child, waited, running_processes, runs, status_last_run,
                   output_files, tpc, tjob, tresults>>

\* process_script_params: every media parameter present is resolved to a local
\* path by the media processor, which succeeds or fails (ScriptError).
Media(t) ==
    /\ pc[t] = "media"
    /\ LET j == job[t]
           ms == MediaParams(j.schema, j.params)
       IN  \E okay \in BOOLEAN :
             /\ (ms = {}) => okay
             /\ IF okay
                THEN /\ job' = [job EXCEPT ![t].params =
                                  [i \in 1..Len(j.params) |->
                                     IF \E k \in ms : j.schema[k].name = j.params[i][1]
                                     THEN <<j.params[i][1], "/local/path">>
                                     ELSE j.params[i]]]
                     /\ pc' = [pc EXCEPT ![t] = "marshal"]
                     /\ UNCHANGED results
                ELSE Return(t, ValidationResult(<<"media param failed",
                                j.schema[CHOOSE k \in ms : \A l \in ms : k <= l].name>>))
    /\ UNCHANGED <<request, child, waited, running_processes, runs, status_last_run,
                   output_files, tpc, tjob, tresults>>

\* A plausible bug: a marshaling error is swallowed and the child is spawned.
MarshalLenient(t) ==
    /\ pc[t] = "marshal"
    /\ job' = [job EXCEPT ![t].cli = build_cli_args(job[t].schema, job[t].params).cli,
                          ![t].schema = <<>>, ![t].params = <<>>]
    /\ pc' = [pc EXCEPT ![t] = "spawn"]
    /\ UNCHANGED <<results, request, child, waited, running_processes, runs, status_last_run,
                   output_files, tpc, tjob, tresults>>

\* _execute_script lines 91-126: build_cli_args, then the command line; a
\* ValueError of build_cli_args leaves _execute_script and is turned into a
\* result by handle_script_errors.
Marshal(t) ==
    /\ pc[t] = "marshal"
    /\ LET m == build_cli_args(job[t].schema, job[t].params)
       IN  IF m.ok
           THEN /\ job' = [job EXCEPT ![t].cli = m.cli, ![t].schema = <<>>, ![t].params = <<>>]
                /\ pc' = [pc EXCEPT ![t] = "spawn"]
                /\ UNCHANGED results
           ELSE Return(t, SystemResult(<<m.error, m.arg>>))
    /\ UNCHANGED <<request, child, waited, running_processes, runs, status_last_run,
                   output_files, tpc, tjob, tresults>>

\* Line 131, subprocess.Popen: the child starts with the command line, or Popen
\* raises OSError (the interpreter is missing); the exception is caught at line 214.
Spawn(t) ==
    /\ pc[t] = "spawn"
    /\ \/ /\ child' = [child EXCEPT ![t] = [NoChild EXCEPT !.state = "running"]]
          /\ request' = [request EXCEPT ![t].spawns = @ + 1]
          /\ pc' = [pc EXCEPT ![t] = "register"]
          /\ job' = [job EXCEPT ![t].cli = <<>>]
       \/ /\ child' = [child EXCEPT ![t] = [NoChild EXCEPT !.state = "spawn_failed"]]
          /\ job' = [job EXCEPT ![t].path = "except", ![t].exc = "OSError", ![t].cli = <<>>]
          /\ pc' = [pc EXCEPT ![t] = "handler"]
          /\ UNCHANGED request
    /\ UNCHANGED <<waited, running_processes, runs, status_last_run,
                   output_files, results, tpc, tjob, tresults>>

\* Line 134: running_processes[script_id] = (proc, script_name).
Register(t) ==
    /\ pc[t] = "register"
    /\ running_processes' = [running_processes EXCEPT ![job[t].script] = t]
    /\ pc' = [pc EXCEPT ![t] = "wait"]
    /\ UNCHANGED <<job, request, child, waited, runs, status_last_run,
                   output_files, results, tpc, tjob, tresults>>

\* The child ends on its own.
ChildExit(a, e) ==
    /\ child[a].state = "running"
    /\ child' = [child EXCEPT ![a] = [state |-> "exited", rc |-> e.rc, out |-> e.out, err |-> e.err]]
    /\ UNCHANGED <<pc, job, request, waited, running_processes, runs, status_last_run,
                   output_files, results, tpc, tjob, tresults>>

\* Time passes while thread t is blocked in proc.communicate(timeout=...) on a
\* running child: the wait is the only place where an attempt spends time, it
\* ends when the child does, and it never outlasts its deadline.
Tick(t) ==
    /\ pc[t] = "wait"
    /\ child[t].state = "running"
    /\ waited[t] < TIMEOUT_MIN
    /\ waited' = [waited EXCEPT ![t] = @ + 1]
    /\ UNCHANGED <<pc, job, request, child, running_processes, runs, status_last_run,
                   output_files, results, tpc, tjob, tresults>>

\* Line 137 returns: the child has exited and its pipes are drained.
WaitReturn(t) ==
    /\ pc[t] = "wait"
    /\ child[t].state = "exited"
    /\ job' = [job EXCEPT ![t].path = "try", ![t].rc = child[t].rc,
                          ![t].out = child[t].out, ![t].err = child[t].err]
    /\ pc' = [pc EXCEPT ![t] = "finally"]
    /\ UNCHANGED <<request, child, waited, running_processes, runs, status_last_run,
                   output_files, results, tpc, tjob, tresults>>

\* Line 137 raises subprocess.TimeoutExpired: the deadline has passed.  Popen's
\* communicate leaves the child as it is; nothing in _execute_script kills it.
WaitTimeout(t) ==
    /\ pc[t] = "wait"
    /\ waited[t] = TIMEOUT_MIN
    /\ job' = [job EXCEPT ![t].path = "timeout", ![t].exc = "TimeoutExpired"]
    /\ request' = [request EXCEPT ![t].expired = TRUE]
    /\ pc' = [pc EXCEPT ![t] = "finally"]
    /\ UNCHANGED <<child, waited, running_processes, runs, status_last_run,
                   output_files, results, tpc, tjob, tresults>>

\* A plausible bug: the entry is never removed by the executor.
UnregisterNothing(s) == running_processes

\* `if script_id in running_processes: del running_processes[script_id]`
Unregister(s) == [running_processes EXCEPT ![s] = NoAttempt]

\* Lines 138-141, the finally clause of the wait.
Finally(t) ==
    /\ pc[t] = "finally"
    /\ running_processes' = Unregister(job[t].script)
    /\ pc' = [pc EXCEPT ![t] = IF job[t].path = "try" THEN "classify" ELSE "handler"]
    /\ UNCHANGED <<job, request, child, waited, runs, status_last_run,
                   output_files, results, tpc, tjob, tresults>>

\* save_binary_output's file: a generated name, the bytes, their count.
BinaryFile(att, out) == [filename |-> att, data |-> out.id, size |-> out.len]
\* The meta dictionary save_binary_output returns.
BinaryMeta(script, att, out) ==
    [url |-> <<"/static/output", script, att>>, filename |-> att, size |-> out.len]

\* int((time.time() - t0) * 1000): the time the attempt has spent so far.
Elapsed(t) == waited[t]

\* Lines 142-171 (exit code 0) and 179-181 (non-zero): measure the duration and
\* classify the output.  save_binary_output may raise before or after it wrote
\* the file (makedirs/open/write, then the base_url lookup).
Classify(t) ==
    /\ pc[t] = "classify"
    /\ LET j == job[t]
           d == Elapsed(t)
       IN  IF j.rc = 0
           THEN IF json_loads(j.out) # None
                THEN /\ job' = [job EXCEPT ![t].duration_ms = d, ![t].status = 1,
                                  ![t].stdout_preview = Preview(j.out),
                                  ![t].result = ResultOf("success", NoInt, d, json_loads(j.out),
                                                  None, NoUrl, NoInt, None, NoInt, NoError, FALSE)]
                     /\ pc' = [pc EXCEPT ![t] = "update"]
                     /\ UNCHANGED output_files
                ELSE \E fault \in {"none", "before_write", "after_write"} :
                     /\ output_files' = IF fault = "before_write" THEN output_files
                                        ELSE output_files \cup {BinaryFile(t, j.out)}
                     /\ IF fault = "none"
                        THEN LET meta == BinaryMeta(j.script, t, j.out)
                             IN /\ job' = [job EXCEPT ![t].duration_ms = d, ![t].status = 1,
                                      ![t].output_file_url = meta.url,
                                      ![t].result = ResultOf("success", NoInt, d, None, "file",
                                                      meta.url, meta.size, None, NoInt, NoError, FALSE)]
                                /\ pc' = [pc EXCEPT ![t] = "update"]
                        ELSE /\ job' = [job EXCEPT ![t].duration_ms = d,
                                          ![t].path = "except", ![t].exc = "OSError"]
                             /\ pc' = [pc EXCEPT ![t] = "handler"]
           ELSE /\ job' = [job EXCEPT ![t].duration_ms = d, ![t].stderr_text = j.err]
                /\ pc' = [pc EXCEPT ![t] = "update"]
                /\ UNCHANGED output_files
    /\ UNCHANGED <<request, child, waited, running_processes, runs, status_last_run,
                   results, tpc, tjob, tresults>>

\* A plausible bug: the except clause starts the script again.
HandlerRetries(t) ==
    /\ pc[t] = "handler"
    /\ running_processes' = Unregister(job[t].script)
    /\ job' = [job EXCEPT ![t].duration_ms = Elapsed(t)]
    /\ pc' = [pc EXCEPT ![t] = IF request[t].spawns < 2 THEN "spawn" ELSE "update"]
    /\ UNCHANGED <<request, child, waited, runs, status_last_run,
                   output_files, results, tpc, tjob, tresults>>

\* Lines 196-199 and 215-218: the except clauses drop the registry entry of the
\* script and measure the duration.
Handler(t) ==
    /\ pc[t] = "handler"
    /\ running_processes' = Unregister(job[t].script)
    /\ job' = [job EXCEPT ![t].duration_ms = Elapsed(t)]
    /\ pc' = [pc EXCEPT ![t] = "update"]
    /\ UNCHANGED <<request, child, waited, runs, status_last_run,
                   output_files, results, tpc, tjob, tresults>>

\* The status update_last_run is called with on each path (lines 172, 182, 201, 220).
LastRunStatus(j) == IF j.path = "try" /\ j.rc = 0 THEN 1 ELSE 2

\* update_last_run(script['id'], ...).
UpdateLastRun(t) ==
    /\ pc[t] = "update"
    /\ status_last_run' = [status_last_run EXCEPT ![job[t].script] = LastRunStatus(job[t])]
    /\ pc' = [pc EXCEPT ![t] = "insert"]
    /\ UNCHANGED <<job, request, child, waited, running_processes, runs,
                   output_files, results, tpc, tjob, tresults>>

\* A plausible bug: a timeout recorded as a plain failure.
RowStatusNoTimeout(j) ==
    IF j.path = "try" /\ j.rc = 0 THEN j.status ELSE 2

\* The status insert_run is called with on each path (lines 173, 183, 202, 221).
RowStatus(j) ==
    CASE j.path = "try" /\ j.rc = 0 -> j.status
      [] j.path = "timeout" -> 3
      [] OTHER -> 2

\* The row insert_run is called with on each path (lines 173, 183, 202, 221).
RowFor(t, j) ==
    CASE j.path = "try" /\ j.rc = 0 ->
            RunRow(t, j.script, j.duration_ms, RowStatus(j), j.stdout_preview, None, j.output_file_url)
      [] j.path = "try" /\ j.rc # 0 ->
            RunRow(t, j.script, j.duration_ms, RowStatus(j), NoPreview, j.stderr_text, NoUrl)
      [] j.path = "timeout" ->
            RunRow(t, j.script, j.duration_ms, RowStatus(j), NoPreview, "timeout", NoUrl)
      [] OTHER ->
            RunRow(t, j.script, j.duration_ms, RowStatus(j), NoPreview, j.exc, NoUrl)

\* The result each path builds around the run id (lines 174, 184-191, 203-210, 226-233).
ResultWithRun(j, run_id) ==
    CASE j.path = "try" /\ j.rc = 0 -> [j.result EXCEPT !.run_id = run_id]
      [] j.path = "try" /\ j.rc # 0 ->
            ResultOf("error", 500, j.duration_ms, None, None, NoUrl, NoInt, j.stderr_text,
                     run_id, NoError, FALSE)
      [] j.path = "timeout" ->
            ResultOf("error", 504, j.duration_ms, None, None, NoUrl, NoInt, "timeout",
                     run_id, NoError, FALSE)
      [] OTHER ->
            ResultOf("error", 500, j.duration_ms, None, None, NoUrl, NoInt, j.exc,
                     run_id, NoError, FALSE)

\* insert_run(...): one row appended to the runs table; its rowid is the run id.
InsertRun(t) ==
    /\ pc[t] = "insert"
    /\ runs' = Append(runs, RowFor(t, job[t]))
    /\ job' = [job EXCEPT ![t].result = ResultWithRun(job[t], Len(runs) + 1)]
    /\ pc' = [pc EXCEPT ![t] = "notify"]
    /\ UNCHANGED <<request, child, waited, running_processes, status_last_run,
                   output_files, results, tpc, tjob, tresults>>

\* Lines 175-177, 192-194, 211-213, 223-233: send_notify when the script has
\* notify_enabled, then return.  send_notify reads the notify_url setting
\* outside its own try block (notifier.py line 13), so it can raise.  Raised
\* inside the try body (lines 176, 193) the exception is caught at line 214;
\* raised inside an except clause it leaves _execute_script and becomes
\* handle_script_errors' result.
Notify(t) ==
    /\ pc[t] = "notify"
    /\ \E raised \in BOOLEAN :
         /\ raised => ScriptRow(job[t].script).notify_enabled = 1
         /\ IF ~raised
            THEN Return(t, job[t].result)
            ELSE IF job[t].path = "try"
                 THEN /\ job' = [job EXCEPT ![t].path = "except", ![t].exc = "notify failed"]
                      /\ pc' = [pc EXCEPT ![t] = "handler"]
                      /\ UNCHANGED results
                 ELSE Return(t, SystemResult(<<"notify failed", None>>))
    /\ UNCHANGED <<request, child, waited, running_processes, runs, status_last_run,
                   output_files, tpc, tjob, tresults>>

(***************************************************************************)
(* terminate_script                                                        *)
(***************************************************************************)

\* The script the operator asks to terminate: the one with notifications on,
\* whose runs take every path the other script's runs take.
TerminateTargets == {1}

\* A plausible bug: a script that is not running is reported as terminated.
TerminateCallBlind(s) ==
    /\ tpc = "idle"
    /\ Len(tresults) < MaxTerminates
    /\ IF running_processes[s] = NoAttempt
       THEN /\ tresults' = Append(tresults, [script |-> s, status |-> "success", message |-> "terminated"])
            /\ UNCHANGED <<tpc, tjob>>
       ELSE /\ tjob' = [script |-> s, proc |-> running_processes[s]]
            /\ tpc' = "kill"
            /\ UNCHANGED tresults
    /\ UNCHANGED <<pc, job, request, child, waited, running_processes, runs, status_last_run,
                   output_files, results>>

\* Lines 238-241: the lookup in the registry.
TerminateCall(s) ==
    /\ tpc = "idle"
    /\ Len(tresults) < MaxTerminates
    /\ IF running_processes[s] = NoAttempt
       THEN /\ tresults' = Append(tresults, [script |-> s, status |-> "error", message |-> "not running"])
            /\ UNCHANGED <<tpc, tjob>>
       ELSE /\ tjob' = [script |-> s, proc |-> running_processes[s]]
            /\ tpc' = "kill"
            /\ UNCHANGED tresults
    /\ UNCHANGED <<pc, job, request, child, waited, running_processes, runs, status_last_run,
                   output_files, results>>

\* Lines 243-244: proc.kill() and proc.wait(timeout=5); SIGKILL ends a running
\* child, and does nothing to one that has already exited.
TerminateKill ==
    /\ tpc = "kill"
    /\ child' = IF child[tjob.proc].state = "running"
                THEN [child EXCEPT ![tjob.proc] =
                        [state |-> "exited", rc |-> 0 - 9, out |-> OutPlain, err |-> "none"]]
                ELSE child
    /\ tpc' = "del"
    /\ UNCHANGED <<pc, job, request, waited, running_processes, runs, status_last_run,
                   output_files, results, tjob, tresults>>

\* A plausible bug: the cancellation writes a ledger row of its own.
TerminateDelWritesRow ==
    /\ tpc = "del"
    /\ IF running_processes[tjob.script] = NoAttempt
       THEN /\ tresults' = Append(tresults, [script |-> tjob.script, status |-> "error", message |-> "KeyError"])
            /\ UNCHANGED running_processes
       ELSE /\ running_processes' = [running_processes EXCEPT ![tjob.script] = NoAttempt]
            /\ tresults' = Append(tresults, [script |-> tjob.script, status |-> "success", message |-> "terminated"])
    /\ runs' = Append(runs, RunRow(tjob.proc, tjob.script, 0, 2, NoPreview, "terminated", NoUrl))
    /\ tpc' = "idle"
    /\ tjob' = [script |-> 0, proc |-> NoAttempt]
    /\ UNCHANGED <<pc, job, request, child, waited, status_last_run,
                   output_files, results>>

\* Lines 245-252: del running_processes[script_id] raises KeyError when the
\* executor thread has removed the entry meanwhile; the except clause turns it
\* into an error answer.
TerminateDel ==
    /\ tpc = "del"
    /\ IF running_processes[tjob.script] = NoAttempt
       THEN /\ tresults' = Append(tresults, [script |-> tjob.script, status |-> "error", message |-> "KeyError"])
            /\ UNCHANGED running_processes
       ELSE /\ running_processes' = [running_processes EXCEPT ![tjob.script] = NoAttempt]
            /\ tresults' = Append(tresults, [script |-> tjob.script, status |-> "success", message |-> "terminated"])
    /\ tpc' = "idle"
    /\ tjob' = [script |-> 0, proc |-> NoAttempt]
    /\ UNCHANGED <<pc, job, request, child, waited, runs, status_last_run,
                   output_files, results>>

(***************************************************************************)
(* Dependency cache: ScriptDepsManager                                     *)
(***************************************************************************)

\* Bound of the cache model: install requests made in one run.
MaxInstalls == 2

Dep(name, version) == [name |-> name, version |-> version]

\* Order of package names, as Python compares the strings used here.
NameRank(name) ==
    CASE name = "numpy" -> 1
      [] name = "pandas" -> 2
      [] name = "requests" -> 3
      [] OTHER -> 4

\* Insert x into an already sorted list after every element whose key is <= x's:
\* sorted() is stable, so equal keys keep their input order.
RECURSIVE InsertByName(_, _)
InsertByName(sorted, x) ==
    IF sorted = <<>> THEN <<x>>
    ELSE IF NameRank(Head(sorted).name) <= NameRank(x.name)
         THEN <<Head(sorted)>> \o InsertByName(Tail(sorted), x)
         ELSE <<x>> \o sorted

\* sorted(deps_list, key=lambda x: x['name'])
RECURSIVE SortedByName(_)
SortedByName(deps_list) ==
    IF deps_list = <<>> THEN <<>>
    ELSE InsertByName(SortedByName(SubSeq(deps_list, 1, Len(deps_list) - 1)),
                      deps_list[Len(deps_list)])

\* calculate_deps_hash: md5 of the JSON text of the list sorted by name.  The
\* digest is kept as the text it is computed from: equal texts, equal digests.
calculate_deps_hash(deps_list) == <<"md5", SortedByName(deps_list)>>

\* get_cache_path: <cache_base>/<python|nodejs>/<hash>
get_cache_path(deps_hash, runtime) ==
    <<".deps_cache", IF runtime = "python" THEN "python" ELSE "nodejs", deps_hash>>

DepsNP == <<Dep("numpy", "==1.0"), Dep("pandas", "")>>
DepsPN == <<Dep("pandas", ""), Dep("numpy", "==1.0")>>
DepsR  == <<Dep("requests", ">=2")>>

\* The (dependency list, runtime) pairs scripts ask for.
DepRequests == {<<DepsNP, "python">>, <<DepsPN, "python">>, <<DepsR, "nodejs">>}
CachePaths == {get_cache_path(calculate_deps_hash(r[1]), r[2]) : r \in DepRequests}

DWorkers == {"w1", "w2"}

\* A directory of the cache tree: absent, or present with what it holds.
NoDir == [exists |-> FALSE, pkgs |-> "none", meta |-> FALSE]
EmptyDir == [exists |-> TRUE, pkgs |-> "none", meta |-> FALSE]

\* is_cache_valid: os.path.exists(cache_path) and os.path.isdir(cache_path)
is_cache_valid(cache_path) == cache_dirs[cache_path].exists

\* The entry holds a finished install: packages in place, manifest written.
Complete(cache_path) ==
    /\ cache_dirs[cache_path].exists
    /\ cache_dirs[cache_path].pkgs = "full"
    /\ cache_dirs[cache_path].meta

NoDJob == [path |-> None, force |-> FALSE, valid |-> FALSE, pm |-> 0, error |-> None]

\* No answer has been given yet.
NoAnswer ==
    [kind |-> "none", path |-> None, force |-> FALSE, valid |-> FALSE,
     success |-> FALSE, from_cache |-> FALSE, handed |-> FALSE, pm |-> 0, complete |-> FALSE]

InitDeps ==
    /\ dpc = [w \in DWorkers |-> "idle"]
    /\ djob = [w \in DWorkers |-> NoDJob]
    /\ cache_dirs = [p \in CachePaths |-> NoDir]
    /\ pms = <<>>
    /\ answer = NoAnswer
    /\ ninstalls = 0
    /\ last_install = [p \in CachePaths |-> "none"]

\* What an install request answers, with what the model remembers of the call.
InstallAnswer(j, success, from_cache) ==
    [kind |-> "install", path |-> j.path, force |-> j.force, valid |-> j.valid,
     success |-> success, from_cache |-> from_cache,
     handed |-> success, pm |-> j.pm, complete |-> Complete(j.path)]

DReturn(w, success, from_cache) ==
    /\ answer' = InstallAnswer(djob[w], success, from_cache)
    /\ last_install' = [last_install EXCEPT ![djob[w].path] =
                           IF success THEN "succeeded" ELSE "failed"]
    /\ dpc' = [dpc EXCEPT ![w] = "idle"]
    /\ djob' = [djob EXCEPT ![w] = NoDJob]

\* A plausible bug: the cache check is skipped, every request installs.
CacheHitNever(force_reinstall, cache_path) == FALSE

\* Lines 265 and 317: `not force_reinstall and self.is_cache_valid(cache_path)`
CacheHit(force_reinstall, cache_path) == ~force_reinstall /\ is_cache_valid(cache_path)

\* _install_python_deps_with_cache / _install_nodejs_deps_with_cache, lines
\* 261-266 and 313-318: hash, path, and the cache check.
InstallCall(w, req, force_reinstall) ==
    /\ dpc[w] = "idle"
    /\ ninstalls < MaxInstalls
    /\ ninstalls' = ninstalls + 1
    /\ LET cache_path == get_cache_path(calculate_deps_hash(req[1]), req[2])
           j == [NoDJob EXCEPT !.path = cache_path, !.force = force_reinstall,
                               !.valid = is_cache_valid(cache_path)]
       IN  IF CacheHit(force_reinstall, cache_path)
           THEN /\ answer' = InstallAnswer(j, TRUE, TRUE)
                /\ UNCHANGED <<dpc, djob>>
           ELSE /\ djob' = [djob EXCEPT ![w] = j]
                /\ dpc' = [dpc EXCEPT ![w] = "makedirs"]
                /\ UNCHANGED answer
    /\ UNCHANGED <<cache_dirs, pms, last_install>>

\* Lines 270 and 322-336: os.makedirs(cache_path, exist_ok=True).
Makedirs(w) ==
    /\ dpc[w] = "makedirs"
    /\ cache_dirs' = [cache_dirs EXCEPT ![djob[w].path] =
                        IF @.exists THEN @ ELSE EmptyDir]
    /\ dpc' = [dpc EXCEPT ![w] = "popen"]
    /\ UNCHANGED <<djob, pms, answer, ninstalls, last_install>>

\* Lines 279-284 and 340-345: subprocess.Popen starts pip or npm on the
\* directory, or raises (the except clause at 307 / 367 is next).
StartPm(w) ==
    /\ dpc[w] = "popen"
    /\ \/ /\ pms' = Append(pms, [path |-> djob[w].path, state |-> "running", rc |-> NoInt,
                                   by |-> w])
          /\ djob' = [djob EXCEPT ![w].pm = Len(pms) + 1]
          /\ dpc' = [dpc EXCEPT ![w] = "communicate"]
       \/ /\ djob' = [djob EXCEPT ![w].error = "OSError"]
          /\ dpc' = [dpc EXCEPT ![w] = "rmtree"]
          /\ UNCHANGED pms
    /\ UNCHANGED <<cache_dirs, answer, ninstalls, last_install>>

\* A running package manager writes into its target directory; it creates the
\* directory when it is not there.
PmWrite(p) ==
    /\ pms[p].state = "running"
    /\ cache_dirs[pms[p].path].pkgs # "full"
    /\ cache_dirs' = [cache_dirs EXCEPT ![pms[p].path] =
                        [exists |-> TRUE, pkgs |-> IF @.pkgs = "none" THEN "partial" ELSE "full",
                         meta |-> @.meta]]
    /\ UNCHANGED <<dpc, djob, pms, answer, ninstalls, last_install>>

\* The package manager exits: 0 once everything is in place, non-zero at any time.
PmExit(p, rc) ==
    /\ pms[p].state = "running"
    /\ rc = 0 => cache_dirs[pms[p].path].pkgs = "full"
    /\ pms' = [pms EXCEPT ![p] = [@ EXCEPT !.state = "exited", !.rc = rc]]
    /\ UNCHANGED <<dpc, djob, cache_dirs, answer, ninstalls, last_install>>

\* Lines 285-287 and 346-348: communicate(timeout=300) returns with the exit
\* code, or raises TimeoutExpired while the package manager is still running
\* (nothing kills it).
Communicate(w) ==
    /\ dpc[w] = "communicate"
    /\ \/ /\ pms[djob[w].pm].state = "exited"
          /\ IF pms[djob[w].pm].rc = 0
             THEN /\ dpc' = [dpc EXCEPT ![w] = "write_meta"]
                  /\ UNCHANGED djob
             ELSE /\ dpc' = [dpc EXCEPT ![w] = "rmtree"]
                  /\ djob' = [djob EXCEPT ![w].error = "install failed"]
       \/ /\ pms[djob[w].pm].state = "running"
          /\ dpc' = [dpc EXCEPT ![w] = "rmtree"]
          /\ djob' = [djob EXCEPT ![w].error = "timeout"]
    /\ UNCHANGED <<cache_dirs, pms, answer, ninstalls, last_install>>

\* Lines 289-298 and 350-359: write .deps_meta.json and answer success; open()
\* raises when the directory is gone (the except clause at 307 / 367 is next).
WriteMeta(w) ==
    /\ dpc[w] = "write_meta"
    /\ IF cache_dirs[djob[w].path].exists
       THEN /\ cache_dirs' = [cache_dirs EXCEPT ![djob[w].path].meta = TRUE]
            /\ dpc' = [dpc EXCEPT ![w] = "answer"]
            /\ UNCHANGED djob
       ELSE /\ dpc' = [dpc EXCEPT ![w] = "rmtree"]
            /\ djob' = [djob EXCEPT ![w].error = "FileNotFoundError"]
            /\ UNCHANGED cache_dirs
    /\ UNCHANGED <<pms, answer, ninstalls, last_install>>

\* Lines 298 and 359: return {'success': True, 'cache_path': ..., 'from_cache': False}.
Answer(w) ==
    /\ dpc[w] = "answer"
    /\ DReturn(w, TRUE, FALSE)
    /\ UNCHANGED <<cache_dirs, pms, ninstalls>>

\* A plausible bug: the cleanup removes the cache base instead of cache_path.
RmtreeCacheBase(w) ==
    /\ dpc[w] = "rmtree"
    /\ cache_dirs' = [p \in CachePaths |-> NoDir]
    /\ DReturn(w, FALSE, FALSE)
    /\ UNCHANGED <<pms, ninstalls>>

\* Lines 301-309 and 361-369: shutil.rmtree(cache_path, ignore_errors=True),
\* then the failure answer.
Rmtree(w) ==
    /\ dpc[w] = "rmtree"
    /\ cache_dirs' = [cache_dirs EXCEPT ![djob[w].path] = NoDir]
    /\ DReturn(w, FALSE, FALSE)
    /\ UNCHANGED <<pms, ninstalls>>

\* get_execution_environment, lines 384-399: the path is exported when
\* is_cache_valid holds (for nodejs: and node_modules exists).
GetExecutionEnvironment(req) ==
    /\ LET cache_path == get_cache_path(calculate_deps_hash(req[1]), req[2])
           handed == /\ is_cache_valid(cache_path)
                     /\ req[2] = "nodejs" => cache_dirs[cache_path].pkgs # "none"
       IN  answer' = [kind |-> "env", path |-> cache_path, force |-> FALSE,
                      valid |-> is_cache_valid(cache_path), success |-> TRUE,
                      from_cache |-> TRUE, handed |-> handed, pm |-> 0,
                      complete |-> Complete(cache_path)]
    /\ UNCHANGED <<dpc, djob, cache_dirs, pms, ninstalls, last_install>>


(***************************************************************************)
(* Scanner: scan_once / parse_and_register / upsert_script                 *)
(*                                                                         *)
(* One scanner thread walks the two script roots, the Python root first.   *)
(* The script files are edited and made unreadable from outside at any     *)
(* moment.  Every file of the model ends in .py or .js, matches no ignore  *)
(* pattern and has the entry-point marker in its text.                     *)
(***************************************************************************)

\* Bounds of the scanner model: scans started, and changes made to the files.
MaxScans == 2
MaxEdits == 2

\* The script files in the order os.walk yields them: SCRIPTS_PY_DIR, then SCRIPTS_JS_DIR.
ScanPaths == <<"a.py", "b.js">>
Paths == Range(ScanPaths)

detect_script_type(path) == IF path = "a.py" THEN "python" ELSE "js"

\* md5_file: the digest of the content, kept as the content it is computed from.
md5_file(path) == <<"md5", files[path].content>>

\* What `script --_sys_get_schema` prints for a content when it works: a JSON
\* text; json.dumps(json.loads(text)) is its normal form.
SchemaTextOf(content) == [json |-> TRUE, doc |-> <<"schema", content>>, raw |-> TRUE]
GarbageText == [json |-> FALSE, doc |-> <<>>, raw |-> TRUE]
NoText == [json |-> FALSE, doc |-> <<>>, raw |-> FALSE]
\* Valid JSON that is no object of parameter specifications: an array.
ArrayText == [json |-> TRUE, doc |-> <<"array">>, raw |-> TRUE]
json_dumps(text) == [text EXCEPT !.raw = FALSE]

\* No row for the filename.
NoScript ==
    [file_hash |-> <<>>, status_load |-> NoInt, load_error_msg |-> None, args_schema |-> NoText,
     alias_name |-> None, script_type |-> None, status_last_run |-> NoInt, notify_enabled |-> NoInt]

NoSJob ==
    [todo |-> <<>>, path |-> None, file_hash |-> <<>>, ok |-> FALSE, schema_text |-> NoText,
     err |-> None, status_load |-> NoInt, load_error_msg |-> None, args_schema |-> NoText]

\* found: the script files the walk of the current scan yields; visited: those
\* parse_and_register was called for; troubled: those whose processing failed;
\* ended: the scan is over; rediscovered: the files for which a discovery was
\* started although their hash was the recorded one; rewritten: the files whose
\* load state or schema an update changed although their hash was unchanged.
NoServed == [status_load |-> NoInt, code |-> 0, spawned |-> FALSE]

NoScanLog ==
    [found |-> {}, visited |-> {}, troubled |-> {}, ended |-> FALSE,
     rediscovered |-> {}, rewritten |-> {}]

InitScan ==
    /\ files = [p \in Paths |-> [content |-> 1, readable |-> TRUE]]
    /\ sidecars = [p \in Paths |-> NoText]
    /\ scripts_table = [p \in Paths |-> NoScript]
    /\ spc = "sleep"
    /\ sjob = NoSJob
    /\ nscans = 0
    /\ nedits = 0
    /\ scan_log = NoScanLog
    /\ served = NoServed

\* Somebody saves a new version of a script file.
EditFile(p) ==
    /\ nedits < MaxEdits
    /\ nedits' = nedits + 1
    /\ files' = [files EXCEPT ![p].content = @ + 1]
    /\ UNCHANGED <<sidecars, scripts_table, spc, sjob, nscans, scan_log, served>>

\* Somebody changes the permissions of a script file.
Chmod(p) ==
    /\ nedits < MaxEdits
    /\ nedits' = nedits + 1
    /\ files' = [files EXCEPT ![p].readable = ~@]
    /\ UNCHANGED <<sidecars, scripts_table, spc, sjob, nscans, scan_log, served>>

\* scanner_loop wakes up and scan_once starts its walk (lines 172-190).
ScanStart ==
    /\ spc = "sleep"
    /\ nscans < MaxScans
    /\ nscans' = nscans + 1
    /\ sjob' = [NoSJob EXCEPT !.todo = ScanPaths]
    /\ scan_log' = [scan_log EXCEPT !.found = Paths, !.visited = {}, !.troubled = {},
                                    !.ended = FALSE]
    /\ spc' = "walk"
    /\ UNCHANGED <<files, sidecars, scripts_table, nedits, served>>

\* The loops of scan_once: the next file, parse_and_register(path) at line
\* 192; after the last file scan_once returns and scanner_loop sleeps.
ScanNext ==
    /\ spc = "walk"
    /\ IF sjob.todo = <<>>
       THEN /\ spc' = "sleep"
            /\ sjob' = NoSJob
            /\ scan_log' = [scan_log EXCEPT !.ended = TRUE]
       ELSE /\ spc' = "entry"
            /\ sjob' = [NoSJob EXCEPT !.todo = Tail(sjob.todo), !.path = Head(sjob.todo)]
            /\ scan_log' = [scan_log EXCEPT !.visited = @ \cup {Head(sjob.todo)}]
    /\ UNCHANGED <<files, sidecars, scripts_table, nscans, nedits, served>>

\* has_entrypoint (lines 71-85, called at line 100): False when the file cannot
\* be read, and parse_and_register returns without recording anything.
has_entrypoint(path) == files[path].readable

HasEntrypoint ==
    /\ spc = "entry"
    /\ IF has_entrypoint(sjob.path)
       THEN /\ spc' = "hash"
            /\ UNCHANGED <<sjob, scan_log>>
       ELSE /\ spc' = "walk"
            /\ sjob' = [NoSJob EXCEPT !.todo = sjob.todo]
            /\ scan_log' = [scan_log EXCEPT !.troubled = @ \cup {sjob.path}]
    /\ UNCHANGED <<files, sidecars, scripts_table, nscans, nedits, served>>

\* Line 103, md5_file(path): open() raises when the file cannot be read; the
\* exception leaves parse_and_register and scan_once and is caught by
\* scanner_loop (lines 199-203), which goes to sleep.
Md5File ==
    /\ spc = "hash"
    /\ IF files[sjob.path].readable
       THEN /\ sjob' = [sjob EXCEPT !.file_hash = md5_file(sjob.path)]
            /\ spc' = "schema"
            /\ UNCHANGED scan_log
       ELSE /\ sjob' = NoSJob
            /\ spc' = "sleep"
            /\ scan_log' = [scan_log EXCEPT !.troubled = @ \cup {sjob.path}, !.ended = TRUE]
    /\ UNCHANGED <<files, sidecars, scripts_table, nscans, nedits, served>>

\* The ways a discovery subprocess can end for a readable file.
DiscoveryEnds == {"json", "array", "garbage", "nonzero", "timeout"}

\* Line 110, run_get_schema(cmd): the subprocess prints the schema of the
\* current content, prints a JSON array, prints something that is not JSON,
\* exits non-zero, or outlasts the
\* 30 s of communicate; the interpreter exits non-zero on an unreadable file.
RunGetSchema(d) ==
    /\ spc = "schema"
    /\ LET f == files[sjob.path]
           e == IF f.readable THEN d ELSE "nonzero"
           row == scripts_table[sjob.path]
       IN  /\ sjob' = CASE e = "json" ->
                            [sjob EXCEPT !.ok = TRUE, !.schema_text = SchemaTextOf(f.content)]
                        [] e = "array" ->
                            [sjob EXCEPT !.ok = TRUE, !.schema_text = ArrayText]
                        [] e = "garbage" ->
                            [sjob EXCEPT !.ok = TRUE, !.schema_text = GarbageText]
                        [] e = "nonzero" ->
                            [sjob EXCEPT !.ok = FALSE, !.err = "stderr of discovery"]
                        [] OTHER ->
                            [sjob EXCEPT !.ok = FALSE, !.err = "timed out"]
           /\ scan_log' = [scan_log EXCEPT
                             !.rediscovered = IF row # NoScript /\ row.file_hash = sjob.file_hash
                                              THEN @ \cup {sjob.path} ELSE @]
    /\ spc' = "validate"
    /\ UNCHANGED <<files, sidecars, scripts_table, nscans, nedits, served>>

\* Lines 111-129: the load state, the error message and the normalised schema;
\* the sidecar is written, and a failure of json.loads or of the write is the
\* 'Invalid schema JSON' failure.
Validate(sidecar_written) ==
    /\ spc = "validate"
    /\ IF sjob.ok
       THEN IF sjob.schema_text.json /\ sidecar_written
            THEN /\ sjob' = [sjob EXCEPT !.status_load = 1, !.load_error_msg = None,
                                         !.args_schema = json_dumps(sjob.schema_text)]
                 /\ sidecars' = [sidecars EXCEPT ![sjob.path] = json_dumps(sjob.schema_text)]
            ELSE /\ sjob' = [sjob EXCEPT !.status_load = 0,
                                         !.load_error_msg = "Invalid schema JSON",
                                         !.args_schema = IF sjob.schema_text.json
                                                         THEN json_dumps(sjob.schema_text)
                                                         ELSE NoText]
                 /\ UNCHANGED sidecars
       ELSE /\ sjob' = [sjob EXCEPT !.status_load = 0, !.load_error_msg = sjob.err]
            /\ UNCHANGED sidecars
    /\ spc' = "upsert"
    /\ UNCHANGED <<files, scripts_table, nscans, nedits, scan_log, served>>

\* upsert_script (database.py 115-148): UPDATE of the hash, load state, error
\* and schema of an existing row, or INSERT of a new row with the defaults.
\* upsert_script written as INSERT OR REPLACE: the row is rebuilt from the
\* call's arguments and the defaults.
UpsertReplaces(row, filename, script_type, file_hash, status_load, load_error_msg, args_schema) ==
    [file_hash |-> file_hash, status_load |-> status_load,
     load_error_msg |-> load_error_msg, args_schema |-> args_schema,
     alias_name |-> filename, script_type |-> script_type,
     status_last_run |-> 0, notify_enabled |-> 0]

upsert_script(row, filename, script_type, file_hash, status_load, load_error_msg, args_schema) ==
    IF row # NoScript
    THEN [row EXCEPT !.file_hash = file_hash, !.status_load = status_load,
                     !.load_error_msg = load_error_msg, !.args_schema = args_schema]
    ELSE [file_hash |-> file_hash, status_load |-> status_load,
          load_error_msg |-> load_error_msg, args_schema |-> args_schema,
          alias_name |-> filename, script_type |-> script_type,
          status_last_run |-> 0, notify_enabled |-> 0]

\* Lines 131-138: upsert_script(...) records the outcome, or raises (the
\* database is locked or gone); the exception leaves scan_once as at line 103.
UpsertScript(recorded) ==
    /\ spc = "upsert"
    /\ LET old == scripts_table[sjob.path]
           new == upsert_script(old, sjob.path, detect_script_type(sjob.path), sjob.file_hash,
                                sjob.status_load, sjob.load_error_msg, sjob.args_schema)
       IN  IF recorded
           THEN /\ scripts_table' = [scripts_table EXCEPT ![sjob.path] = new]
                /\ spc' = "walk"
                /\ sjob' = [NoSJob EXCEPT !.todo = sjob.todo]
                /\ scan_log' = [scan_log EXCEPT
                      !.troubled = IF sjob.status_load = 0 THEN @ \cup {sjob.path} ELSE @,
                      !.rewritten = IF /\ old # NoScript /\ old.file_hash = sjob.file_hash
                                       /\ <<old.status_load, old.args_schema>>
                                            # <<new.status_load, new.args_schema>>
                                    THEN @ \cup {sjob.path} ELSE @]
           ELSE /\ UNCHANGED scripts_table
                /\ spc' = "sleep"
                /\ sjob' = NoSJob
                /\ scan_log' = [scan_log EXCEPT !.troubled = @ \cup {sjob.path}, !.ended = TRUE]
    /\ UNCHANGED <<files, sidecars, nscans, nedits, served>>


\* The run routes of the API (app.py 404-461 POST, 482-491 GET) for the script
\* of a path: 404 without a row; the schema is read from the sidecar file if
\* there is one, else from the row's args_schema; without either the POST
\* route answers 400 'schema missing' and the GET route goes on with {}.
\* Nothing reads status_load.  The parameters of the request are taken to
\* satisfy the schema, so run_script, once called, spawns the child.
RunRoutes == {"POST", "GET"}
LoadArgsSchema(path) ==
    IF sidecars[path] # NoText THEN sidecars[path] ELSE scripts_table[path].args_schema
RunRequest(path, route) ==
    /\ LET row == scripts_table[path]
       IN  served' =
             IF row = NoScript
             THEN [status_load |-> NoInt, code |-> 404, spawned |-> FALSE]
             ELSE IF LoadArgsSchema(path) = NoText /\ route = "POST"
             THEN [status_load |-> row.status_load, code |-> 400, spawned |-> FALSE]
             ELSE [status_load |-> row.status_load, code |-> 200, spawned |-> TRUE]
    /\ UNCHANGED <<files, sidecars, scripts_table, spc, sjob, nscans, nedits, scan_log>>

(***************************************************************************)
(* Inputs of the pure functions                                            *)
(***************************************************************************)

\* Bound of the dependency lists calculate_deps_hash is applied to.
MaxDeps == 3

MarshalNames == {"a", "b", "c"}
\* The declared type of each parameter name.
MarshalType(name) ==
    CASE name = "a" -> "int"
      [] name = "b" -> "str"
      [] OTHER -> "bool"
\* The raw values a parameter map may hold for each name.
MarshalValues(name) ==
    CASE name = "a" -> {"5", "05", "x"}
      [] name = "b" -> {"x"}
      [] OTHER -> {"Yes", "no", "TRUE", "True", "1", "on"}

\* Schemas: the names in any declaration order, each required or optional.
MarshalSchemas ==
    UNION {{[i \in 1..Len(order) |-> ParamSpecOf(order[i], MarshalType(order[i]), order[i] \in req)] :
              req \in SUBSET Range(order)} :
           order \in Arrangements(MarshalNames, Cardinality(MarshalNames))}

\* Parameter maps: some of the names in any insertion order, each with a value.
RECURSIVE MapsOver(_)
MapsOver(order) ==
    IF order = <<>> THEN {<<>>}
    ELSE {<<<<Head(order), v>>>> \o rest :
            v \in MarshalValues(Head(order)), rest \in MapsOver(Tail(order))}
MarshalMaps ==
    UNION {MapsOver(order) : order \in Arrangements(MarshalNames, Cardinality(MarshalNames))}

\* The dependency entries lists are drawn from: two of them share a name.
DepPool == {Dep("numpy", "==1.0"), Dep("numpy", ">=2.0"), Dep("pandas", ""), Dep("requests", ">=2")}
RECURSIVE SeqsUpTo(_, _)
SeqsUpTo(S, n) ==
    IF n = 0 THEN {<<>>}
    ELSE {<<>>} \cup {<<x>> \o r : x \in S, r \in SeqsUpTo(S, n - 1)}
DepLists == SeqsUpTo(DepPool, MaxDeps)

\* An environment variable that is not set.
Unset == [set |-> FALSE, elems |-> <<>>]
\* No script and no environment chosen; no child started yet in any way.
NoEnvInput ==
    [script |-> [name |-> <<>>, type |-> None, deps |-> <<>>], PYTHONPATH |-> Unset, NODE_PATH |-> Unset]
NoEnvOutput ==
    [export |-> [done |-> FALSE], run |-> [done |-> FALSE], discover |-> [done |-> FALSE]]

\* No operation waits on a child.
NoWaitChild == [state |-> "none", rc |-> 0, holder |-> FALSE]
NoWaitResult ==
    [returned |-> FALSE, return_code |-> 0, timeout |-> FALSE, expired |-> FALSE, killed |-> FALSE]
WaitIdle ==
    /\ wop = None
    /\ wpc = "none"
    /\ wchild = NoWaitChild
    /\ wclock = 0
    /\ wresult = NoWaitResult

\* Nothing outside the executor, the dependency cache and the scanner is under way.
NoCleanInput == <<>>
NoCleanOutput == <<>>

CleanIdle ==
    /\ k_in = NoCleanInput
    /\ k_out = NoCleanOutput

Registrars == {"scanner", "create"}
NoReg ==
    [pc |-> "idle", path |-> <<>>, found |-> FALSE, disc |-> <<>>, todo |-> <<>>,
     last |-> "none", raced |-> ""]
NoFlight == 0

CatIdle ==
    /\ catalog = {}
    /\ ledger = {}
    /\ disk = {}
    /\ reg = [r \in Registrars |-> NoReg]
    /\ flight = NoFlight
    /\ cat = [next_id |-> 1, now |-> 0, passes |-> 0, deletes |-> 0, patches |-> 0,
             aborted |-> FALSE]

RestIdle == WaitIdle /\ CleanIdle /\ CatIdle

PureIdle ==
    /\ m_in = [schema |-> <<>>, params |-> <<>>]
    /\ m_out = {}
    /\ h_in = <<>>
    /\ h_out = {}
    /\ e_in = NoEnvInput
    /\ e_out = NoEnvOutput

InitPure == PureIdle /\ RestIdle

\* build_cli_args is called with the schema and one insertion order of the map.
ApplyMarshal(perm) ==
    /\ perm \in Perms(m_in.params)
    /\ m_in' = [m_in EXCEPT !.params = perm]
    /\ m_out' = m_out \cup {build_cli_args(m_in.schema, perm)}
    /\ UNCHANGED <<h_in, h_out, e_in, e_out, rest_vars, exec_vars, deps_vars, scan_vars>>

\* calculate_deps_hash is called with one order of the dependency list.
ApplyHash(perm) ==
    /\ perm \in Perms(h_in)
    /\ h_in' = perm
    /\ h_out' = h_out \cup {get_cache_path(calculate_deps_hash(perm), "python")}
    /\ UNCHANGED <<m_in, m_out, e_in, e_out, rest_vars, exec_vars, deps_vars, scan_vars>>

(***************************************************************************)
(* Child environments: what each way of starting a script's process hands  *)
(* to Popen as cwd and env.  A search-path variable is the sequence of its  *)
(* ':'-separated elements; a path is the sequence of its components.       *)
(***************************************************************************)

\* Bound of the number of elements of the ambient PYTHONPATH.
MaxPathElems == 2

\* get_project_root() and the SenseVoiceSmall directory below it.
ProjectRoot == <<"app">>
SenseVoicePath == ProjectRoot \o <<"scripts_repo", "python", "SenseVoiceSmall">>
OptLib == <<"opt", "lib">>
NodeLib == <<"usr", "lib", "node_modules">>

\* An environment variable set to a value (which may be empty).
Var(elems) == [set |-> TRUE, elems |-> elems]
\* env.get(name, '')
EnvGet(var) == IF var.set THEN var.elems ELSE <<>>

\* `path in python_path` on strings: the path is a substring of an element.
InPath(path, python_path) ==
    \E k \in 1..Len(python_path) :
        \E i \in 0..(Len(python_path[k]) - Len(path)) :
            SubSeq(python_path[k], i + 1, i + Len(path)) = path

\* The scripts: name below the script root, type, and the dependency list
\* its requirements.txt or package.json declares.
EnvScripts ==
    {[name |-> <<"a.py">>, type |-> "python", deps |-> DepsNP],
     [name |-> <<"SenseVoiceSmall", "asr.py">>, type |-> "python", deps |-> DepsNP],
     [name |-> <<"b.js">>, type |-> "js", deps |-> DepsR]}
EnvInputs ==
    [script : EnvScripts,
     PYTHONPATH : {Unset} \cup {Var(v) : v \in SeqsUpTo({OptLib, ProjectRoot, SenseVoicePath}, MaxPathElems)},
     NODE_PATH : {Unset, Var(<<>>), Var(<<NodeLib>>)}]
\* The states of a cache directory: absent, created but empty, installed.
DirStates == {NoDir, EmptyDir, [exists |-> TRUE, pkgs |-> "full", meta |-> TRUE]}

\* The environment of the server process, as far as the model follows it.
Ambient == [PYTHONPATH |-> e_in.PYTHONPATH, NODE_PATH |-> e_in.NODE_PATH, SCRIPT_VARS |-> FALSE]


\* The cache path of the script's dependencies for a runtime.
CachePathOf(script, runtime) == get_cache_path(calculate_deps_hash(script.deps), runtime)

\* get_execution_environment (deps.py 371-401): the python cache path when
\* the script has python dependencies and the entry is valid; node_modules
\* inside the nodejs cache path when it exists in a valid entry.
NoPath == <<>>
get_execution_environment(script) ==
    [python_path |->
        IF script.type = "python" /\ is_cache_valid(CachePathOf(script, "python"))
        THEN CachePathOf(script, "python") ELSE NoPath,
     node_path |->
        IF /\ script.type = "js"
           /\ is_cache_valid(CachePathOf(script, "nodejs"))
           /\ cache_dirs[CachePathOf(script, "nodejs")].pkgs # "none"
        THEN CachePathOf(script, "nodejs") \o <<"node_modules">> ELSE NoPath]

\* A plausible bug: the export overwrites the variable.
PrependOverwrite(path, current) == <<path>>

\* script_env_manager.py 50-53 and 59-62: f"{path}:{current}" when the
\* current value is not empty, else the path alone.
Prepend(path, current) ==
    IF current # <<>> THEN <<path>> \o current ELSE <<path>>

\* create_execution_environment (script_env_manager.py 21-73): the variables
\* of the export.
create_execution_environment(script) ==
    LET exec_env == get_execution_environment(script)
    IN  [PYTHONPATH |-> IF exec_env.python_path # NoPath
                        THEN Var(Prepend(exec_env.python_path, EnvGet(Ambient.PYTHONPATH)))
                        ELSE Unset,
         NODE_PATH |-> IF exec_env.node_path # NoPath
                       THEN Var(Prepend(exec_env.node_path, EnvGet(Ambient.NODE_PATH)))
                       ELSE Unset,
         SCRIPT_VARS |-> TRUE]

\* execute_script_with_env (script_env_manager.py 75-106): os.environ updated
\* with the export, cwd = the script's directory.  In what Popen was given,
\* cwd "server" stands for Popen without cwd argument.
execute_script_with_env(script) ==
    LET env_vars == create_execution_environment(script)
    IN  [done |-> TRUE, cwd |-> "script dir",
         env |-> [PYTHONPATH |-> IF env_vars.PYTHONPATH.set THEN env_vars.PYTHONPATH
                                 ELSE Ambient.PYTHONPATH,
                  NODE_PATH |-> IF env_vars.NODE_PATH.set THEN env_vars.NODE_PATH
                                ELSE Ambient.NODE_PATH,
                  SCRIPT_VARS |-> TRUE],
         env_vars |-> env_vars]

\* _execute_script (executor.py 93-131): the project root, and for a script
\* named SenseVoiceSmall its directory, in front of PYTHONPATH of a python
\* script; the environment of a js script is os.environ; Popen without cwd.
execute_script_env(script) ==
    LET python_path == EnvGet(Ambient.PYTHONPATH)
        with_root == IF python_path # <<>> THEN <<ProjectRoot>> \o python_path
                     ELSE <<ProjectRoot>>
        with_sv == IF InPath(<<"SenseVoiceSmall">>, <<script.name>>)
                   THEN <<SenseVoicePath>> \o with_root ELSE with_root
    IN  [done |-> TRUE, cwd |-> "server",
         env |-> IF script.type = "python"
                 THEN [Ambient EXCEPT !.PYTHONPATH = Var(with_sv)]
                 ELSE Ambient,
         env_vars |-> <<>>]

\* run_get_schema (scanner.py 25-46): the project root and the SenseVoiceSmall
\* directory are appended to PYTHONPATH, each unless the text already holds
\* it, for scripts of either type; Popen without cwd.
AppendUnlessIn(python_path, path) ==
    IF InPath(path, python_path) THEN python_path ELSE python_path \o <<path>>
run_get_schema_env(script) ==
    LET python_path ==
            AppendUnlessIn(AppendUnlessIn(EnvGet(Ambient.PYTHONPATH), ProjectRoot), SenseVoicePath)
    IN  [done |-> TRUE, cwd |-> "server",
         env |-> [Ambient EXCEPT !.PYTHONPATH = Var(python_path)],
         env_vars |-> <<>>]

ApplyExport ==
    /\ ~e_out.export.done
    /\ e_out' = [e_out EXCEPT !.export = execute_script_with_env(e_in.script)]
    /\ UNCHANGED <<m_in, m_out, h_in, h_out, e_in, rest_vars, exec_vars, deps_vars, scan_vars>>

ApplyRun ==
    /\ ~e_out.run.done
    /\ e_out' = [e_out EXCEPT !.run = execute_script_env(e_in.script)]
    /\ UNCHANGED <<m_in, m_out, h_in, h_out, e_in, rest_vars, exec_vars, deps_vars, scan_vars>>

ApplyDiscover ==
    /\ ~e_out.discover.done
    /\ e_out' = [e_out EXCEPT !.discover = run_get_schema_env(e_in.script)]
    /\ UNCHANGED <<m_in, m_out, h_in, h_out, e_in, rest_vars, exec_vars, deps_vars, scan_vars>>

(***************************************************************************)
(* Waits on a child process.  One operation starts a child and waits for   *)
(* it.  communicate() returns when the child has exited and both pipes are *)
(* at end of file; a process started by the child that inherited the pipes *)
(* keeps them open after the child's exit.  Time passes in ticks; every    *)
(* deadline of the code is one tick.                                       *)
(***************************************************************************)

\* Bound of the clock of a wait.
MaxClock == 2

\* The operations: _execute_script (executor.py 131-137), run_get_schema
\* (scanner.py 46-47), _install_*_deps_with_cache (deps.py 279-285, 340-346),
\* install_python_deps (deps.py 94-95), execute_script_with_env
\* (script_env_manager.py 94-118).
WaitOps ==
    {"_execute_script", "run_get_schema", "_install_deps_with_cache",
     "install_python_deps", "execute_script_with_env"}

\* The timeout argument of the first communicate of each operation, in ticks;
\* install_python_deps calls communicate() without one.
NoDeadline == 0 - 1
Deadline(op) == IF op = "install_python_deps" THEN NoDeadline ELSE 1

\* Popen.returncode of a child that ended on its own: an exit code, or minus
\* the number of the signal that ended it (SIGHUP = 1, SIGTERM = 15).
OwnExitCodes == {0, 1, 0 - 1, 0 - 15}
SIGKILL == 9

\* The data of the child is complete: it has exited and its pipes are closed.
PipesDone == wchild.state = "exited" /\ ~wchild.holder

\* The child ends on its own.
WaitChildExit(rc) ==
    /\ wchild.state = "running"
    /\ wchild' = [wchild EXCEPT !.state = "exited", !.rc = rc]
    /\ UNCHANGED <<wop, wpc, wclock, wresult>>

\* The process that inherited the pipes ends.
WaitHolderExit ==
    /\ wchild.state # "none"
    /\ wchild.holder
    /\ wchild' = [wchild EXCEPT !.holder = FALSE]
    /\ UNCHANGED <<wop, wpc, wclock, wresult>>

\* Time passes while the operation is blocked.
WaitTick ==
    /\ wpc \in {"communicate", "communicate_again"}
    /\ wclock < MaxClock
    /\ wclock' = wclock + 1
    /\ UNCHANGED <<wop, wpc, wchild, wresult>>

\* communicate returns: returncode is the child's, no timeout is reported.
WaitDone ==
    /\ wpc = "communicate"
    /\ PipesDone
    /\ wresult' = [wresult EXCEPT !.returned = TRUE, !.return_code = wchild.rc,
                                  !.timeout = (wop = "execute_script_with_env" /\ wchild.rc = 0 - 1)]
    /\ wpc' = "returned"
    /\ UNCHANGED <<wop, wchild, wclock>>

\* communicate(timeout=...) raises TimeoutExpired.  execute_script_with_env
\* goes on to kill the child (script_env_manager.py 115-116); the other
\* operations answer at once and leave the child alone.
WaitExpire ==
    /\ wpc = "communicate"
    /\ Deadline(wop) # NoDeadline
    /\ wclock >= Deadline(wop)
    /\ ~PipesDone
    /\ IF wop = "execute_script_with_env"
       THEN /\ wpc' = "kill"
            /\ wresult' = [wresult EXCEPT !.expired = TRUE]
       ELSE /\ wpc' = "returned"
            /\ wresult' = [wresult EXCEPT !.returned = TRUE, !.expired = TRUE, !.timeout = TRUE]
    /\ UNCHANGED <<wop, wchild, wclock>>

\* script_env_manager.py 116: proc.kill(), without effect on a child that has
\* exited already.
WaitKill ==
    /\ wpc = "kill"
    /\ wchild' = IF wchild.state = "running"
                 THEN [wchild EXCEPT !.state = "exited", !.rc = 0 - SIGKILL]
                 ELSE wchild
    /\ wresult' = [wresult EXCEPT !.killed = TRUE]
    /\ wpc' = "communicate_again"
    /\ wclock' = 0
    /\ UNCHANGED wop

\* script_env_manager.py 117-128: proc.communicate() without timeout, then
\* return_code = -1 and 'timeout': return_code == -1.
WaitDoneAfterKill ==
    /\ wpc = "communicate_again"
    /\ PipesDone
    /\ wresult' = [wresult EXCEPT !.returned = TRUE, !.return_code = 0 - 1, !.timeout = TRUE]
    /\ wpc' = "returned"
    /\ UNCHANGED <<wop, wchild, wclock>>

(***************************************************************************)
(* Specifications                                                          *)
(***************************************************************************)

Init == InitExec /\ InitDeps /\ InitScan /\ InitPure

Next ==
    \/ \E t \in Threads, s \in Scripts, req \in ExecRequests :
          Call(t, s, req[1], req[2]) /\ UNCHANGED <<deps_vars, scan_vars, pure_vars>>
    \/ \E t \in Threads : Media(t) /\ UNCHANGED <<deps_vars, scan_vars, pure_vars>>
    \/ \E t \in Threads : Marshal(t) /\ UNCHANGED <<deps_vars, scan_vars, pure_vars>>
    \/ \E t \in Threads : Spawn(t) /\ UNCHANGED <<deps_vars, scan_vars, pure_vars>>
    \/ \E t \in Threads : Register(t) /\ UNCHANGED <<deps_vars, scan_vars, pure_vars>>
    \/ \E a \in Threads, e \in ChildEnds : ChildExit(a, e) /\ UNCHANGED <<deps_vars, scan_vars, pure_vars>>
    \/ \E t \in Threads : Tick(t) /\ UNCHANGED <<deps_vars, scan_vars, pure_vars>>
    \/ \E t \in Threads : WaitReturn(t) /\ UNCHANGED <<deps_vars, scan_vars, pure_vars>>
    \/ \E t \in Threads : WaitTimeout(t) /\ UNCHANGED <<deps_vars, scan_vars, pure_vars>>
    \/ \E t \in Threads : Finally(t) /\ UNCHANGED <<deps_vars, scan_vars, pure_vars>>
    \/ \E t \in Threads : Classify(t) /\ UNCHANGED <<deps_vars, scan_vars, pure_vars>>
    \/ \E t \in Threads : Handler(t) /\ UNCHANGED <<deps_vars, scan_vars, pure_vars>>
    \/ \E t \in Threads : UpdateLastRun(t) /\ UNCHANGED <<deps_vars, scan_vars, pure_vars>>
    \/ \E t \in Threads : InsertRun(t) /\ UNCHANGED <<deps_vars, scan_vars, pure_vars>>
    \/ \E t \in Threads : Notify(t) /\ UNCHANGED <<deps_vars, scan_vars, pure_vars>>
    \/ \E s \in TerminateTargets : TerminateCall(s) /\ UNCHANGED <<deps_vars, scan_vars, pure_vars>>
    \/ TerminateKill /\ UNCHANGED <<deps_vars, scan_vars, pure_vars>>
    \/ TerminateDel /\ UNCHANGED <<deps_vars, scan_vars, pure_vars>>

Spec == Init /\ [][Next]_vars

NextDeps ==
    \/ \E w \in DWorkers, req \in DepRequests, force \in BOOLEAN :
          InstallCall(w, req, force) /\ UNCHANGED <<exec_vars, scan_vars, pure_vars>>
    \/ \E w \in DWorkers : Makedirs(w) /\ UNCHANGED <<exec_vars, scan_vars, pure_vars>>
    \/ \E w \in DWorkers : StartPm(w) /\ UNCHANGED <<exec_vars, scan_vars, pure_vars>>
    \/ \E p \in 1..Len(pms) : PmWrite(p) /\ UNCHANGED <<exec_vars, scan_vars, pure_vars>>
    \/ \E p \in 1..Len(pms), rc \in {0, 1} : PmExit(p, rc) /\ UNCHANGED <<exec_vars, scan_vars, pure_vars>>
    \/ \E w \in DWorkers : Communicate(w) /\ UNCHANGED <<exec_vars, scan_vars, pure_vars>>
    \/ \E w \in DWorkers : WriteMeta(w) /\ UNCHANGED <<exec_vars, scan_vars, pure_vars>>
    \/ \E w \in DWorkers : Answer(w) /\ UNCHANGED <<exec_vars, scan_vars, pure_vars>>
    \/ \E w \in DWorkers : Rmtree(w) /\ UNCHANGED <<exec_vars, scan_vars, pure_vars>>
    \/ \E req \in DepRequests : GetExecutionEnvironment(req) /\ UNCHANGED <<exec_vars, scan_vars, pure_vars>>

SpecDeps == Init /\ [][NextDeps]_vars

NextScan ==
    \/ \E p \in Paths : EditFile(p) /\ UNCHANGED <<exec_vars, deps_vars, pure_vars>>
    \/ \E p \in Paths : Chmod(p) /\ UNCHANGED <<exec_vars, deps_vars, pure_vars>>
    \/ ScanStart /\ UNCHANGED <<exec_vars, deps_vars, pure_vars>>
    \/ ScanNext /\ UNCHANGED <<exec_vars, deps_vars, pure_vars>>
    \/ HasEntrypoint /\ UNCHANGED <<exec_vars, deps_vars, pure_vars>>
    \/ Md5File /\ UNCHANGED <<exec_vars, deps_vars, pure_vars>>
    \/ \E d \in DiscoveryEnds : RunGetSchema(d) /\ UNCHANGED <<exec_vars, deps_vars, pure_vars>>
    \/ \E w \in BOOLEAN : Validate(w) /\ UNCHANGED <<exec_vars, deps_vars, pure_vars>>
    \/ \E r \in BOOLEAN : UpsertScript(r) /\ UNCHANGED <<exec_vars, deps_vars, pure_vars>>
    \/ \E p \in Paths, route \in RunRoutes :
          RunRequest(p, route) /\ UNCHANGED <<exec_vars, deps_vars, pure_vars>>

SpecScan == Init /\ [][NextScan]_vars

InitMarshal ==
    /\ InitExec /\ InitDeps /\ InitScan /\ RestIdle
    /\ e_in = NoEnvInput
    /\ e_out = NoEnvOutput
    /\ m_in \in [schema : MarshalSchemas, params : MarshalMaps]
    /\ m_out = {}
    /\ h_in = <<>>
    /\ h_out = {}

NextMarshal == \E perm \in Perms(m_in.params) : ApplyMarshal(perm)

SpecMarshal == InitMarshal /\ [][NextMarshal]_vars

InitHash ==
    /\ InitExec /\ InitDeps /\ InitScan /\ RestIdle
    /\ e_in = NoEnvInput
    /\ e_out = NoEnvOutput
    /\ m_in = [schema |-> <<>>, params |-> <<>>]
    /\ m_out = {}
    /\ h_in \in DepLists
    /\ h_out = {}

NextHash == \E perm \in Perms(h_in) : ApplyHash(perm)

SpecHash == InitHash /\ [][NextHash]_vars

\* The cache directories are in any of their states when the environment is built.
InitEnv ==
    /\ InitExec /\ InitScan /\ RestIdle
    /\ dpc = [w \in DWorkers |-> "idle"]
    /\ djob = [w \in DWorkers |-> NoDJob]
    /\ cache_dirs \in [CachePaths -> DirStates]
    /\ pms = <<>>
    /\ answer = NoAnswer
    /\ ninstalls = 0
    /\ last_install = [p \in CachePaths |-> "none"]
    /\ m_in = [schema |-> <<>>, params |-> <<>>]
    /\ m_out = {}
    /\ h_in = <<>>
    /\ h_out = {}
    /\ e_in \in EnvInputs
    /\ e_out = NoEnvOutput

NextEnv == ApplyExport \/ ApplyRun \/ ApplyDiscover

SpecEnv == InitEnv /\ [][NextEnv]_vars

\* Any of the operations has started its child, with or without a process
\* that inherited the pipes, and enters its wait.
InitWait ==
    /\ InitExec /\ InitDeps /\ InitScan /\ PureIdle /\ CleanIdle /\ CatIdle
    /\ wop \in WaitOps
    /\ wpc = "communicate"
    /\ wchild \in {[state |-> "running", rc |-> 0, holder |-> h] : h \in BOOLEAN}
    /\ wclock = 0
    /\ wresult = NoWaitResult

WaitStep == WaitDone \/ WaitExpire \/ WaitKill \/ WaitDoneAfterKill

NextWait ==
    \/ (\E rc \in OwnExitCodes : WaitChildExit(rc)) /\ UNCHANGED <<exec_vars, deps_vars, scan_vars, m_in, m_out, h_in, h_out, e_in, e_out, clean_vars, cat_vars>>
    \/ WaitHolderExit /\ UNCHANGED <<exec_vars, deps_vars, scan_vars, m_in, m_out, h_in, h_out, e_in, e_out, clean_vars, cat_vars>>
    \/ WaitTick /\ UNCHANGED <<exec_vars, deps_vars, scan_vars, m_in, m_out, h_in, h_out, e_in, e_out, clean_vars, cat_vars>>
    \/ WaitDone /\ UNCHANGED <<exec_vars, deps_vars, scan_vars, m_in, m_out, h_in, h_out, e_in, e_out, clean_vars, cat_vars>>
    \/ WaitExpire /\ UNCHANGED <<exec_vars, deps_vars, scan_vars, m_in, m_out, h_in, h_out, e_in, e_out, clean_vars, cat_vars>>
    \/ WaitKill /\ UNCHANGED <<exec_vars, deps_vars, scan_vars, m_in, m_out, h_in, h_out, e_in, e_out, clean_vars, cat_vars>>
    \/ WaitDoneAfterKill /\ UNCHANGED <<exec_vars, deps_vars, scan_vars, m_in, m_out, h_in, h_out, e_in, e_out, clean_vars, cat_vars>>

SpecWait == InitWait /\ [][NextWait]_vars

\* The server's threads keep running and time passes; nothing obliges the
\* child, or a process holding its pipes, to end.
SpecWaitLive ==
    /\ InitWait /\ [][NextWait]_vars
    /\ WF_wait_vars(WaitTick)
    /\ WF_wait_vars(WaitStep)

(***************************************************************************)
(* Eviction of the dependency cache: cleanup_cache walks the two runtime    *)
(* directories under cache_base and removes the directories whose age      *)
(* (time since st_ctime) is greater than max_age_days.  Ages and the       *)
(* horizon are in days, sizes in MiB.                                      *)
(***************************************************************************)

MaxAge == 2
MaxSize == 2
Runtimes == {"python", "nodejs"}
\* The names os.listdir may return inside a runtime directory.
CacheSlots == {<<"python", 1>>, <<"python", 2>>, <<"nodejs", 1>>}
NoCacheEntry == <<>>
\* An entry is a directory or a plain file, has an age and a size, and
\* shutil.rmtree on it succeeds or raises.
CacheEntries ==
    [isdir : BOOLEAN, age : 0..MaxAge, size : 1..MaxSize, removable : BOOLEAN]
SlotsOf(listing, runtime) ==
    {c \in CacheSlots : c[1] = runtime /\ listing[c] # NoCacheEntry}

\* Lines 418-424: the entry is a directory and dir_age > max_age_seconds.
Expired(e, max_age_days) == e.isdir /\ e.age > max_age_days

\* Lines 433-435 are reached: rmtree returned without raising.
Cleaned(e, max_age_days) == Expired(e, max_age_days) /\ e.removable

RECURSIVE SumSizes(_, _)
SumSizes(listing, slots) ==
    IF slots = {} THEN 0
    ELSE LET c == CHOOSE x \in slots : TRUE
         IN  listing[c].size + SumSizes(listing, slots \ {c})

\* The size cleanup_cache reports: one total over both runtimes (line 435).
TotalSizeMb(listing, max_age_days) ==
    SumSizes(listing, {c \in CacheSlots : listing[c] # NoCacheEntry
                                          /\ Cleaned(listing[c], max_age_days)})

cleanup_cache(listing, max_age_days) ==
    [listing |->
        [c \in CacheSlots |->
            IF listing[c] # NoCacheEntry /\ Cleaned(listing[c], max_age_days)
            THEN NoCacheEntry ELSE listing[c]],
     cleaned |->
        [python |-> Cardinality({c \in SlotsOf(listing, "python") :
                                    Cleaned(listing[c], max_age_days)}),
         nodejs |-> Cardinality({c \in SlotsOf(listing, "nodejs") :
                                    Cleaned(listing[c], max_age_days)}),
         total_size_mb |-> TotalSizeMb(listing, max_age_days)]]

\* POST /api/dependencies/cache/cleanup
ApplyCleanup ==
    /\ k_in # NoCleanInput
    /\ k_out = NoCleanOutput
    /\ k_out' = cleanup_cache(k_in.listing, k_in.max_age_days)
    /\ UNCHANGED <<k_in, wait_vars, cat_vars, m_in, m_out, h_in, h_out, e_in, e_out,
                   exec_vars, deps_vars, scan_vars>>

InitClean ==
    /\ InitExec /\ InitDeps /\ InitScan /\ PureIdle /\ WaitIdle /\ CatIdle
    /\ k_in \in [listing : [CacheSlots -> CacheEntries \cup {NoCacheEntry}],
                 max_age_days : 0..(MaxAge - 1)]
    /\ k_out = NoCleanOutput

NextClean == ApplyCleanup

SpecClean == InitClean /\ [][NextClean]_vars

(***************************************************************************)
(* The catalog (scripts table) and the ledger (runs table) under the       *)
(* requests that write them: the two registrars (the scanner thread and a   *)
(* create or upload request, both through parse_and_register), the alias   *)
(* and notify routes, the end of an execution, and the delete route.  All  *)
(* of them share one sqlite connection; every statement is atomic, and a   *)
(* SELECT followed by a write is two statements.                           *)
(***************************************************************************)

MaxIds == 2
MaxNow == 1
MaxPasses == 1
MaxDeletes == 1
MaxLedger == 1
MaxPatches == 1
Aliases == {"renamed"}

\* What discovery found for the file: its hash, and a schema or an error.
CatDiscoveries ==
    {[file_hash |-> <<"md5", 1>>, status_load |-> 1, load_error_msg |-> None,
      args_schema |-> [json |-> TRUE, doc |-> <<>>, raw |-> FALSE]],
     [file_hash |-> <<"md5", 2>>, status_load |-> 0,
      load_error_msg |-> "unknown error", args_schema |-> NoText]}

CatalogRowsOf(filename) == {row \in catalog : row.filename = filename}
RowIds == {row.id : row \in catalog}

\* UPDATE scripts SET ... WHERE filename=? (database.py 127-134)
UpdateByFilename(rows, filename, d, now) ==
    {IF row.filename = filename
     THEN [row EXCEPT !.cols = upsert_script(row.cols, filename, row.cols.script_type,
                                             d.file_hash, d.status_load,
                                             d.load_error_msg, d.args_schema),
                      !.updated_at = now]
     ELSE row : row \in rows}

\* INSERT INTO scripts(...) (database.py 136-144); id is AUTOINCREMENT.
InsertedRow(id, filename, d, now) ==
    [id |-> id, filename |-> filename, created_at |-> now, updated_at |-> now,
     cols |-> upsert_script(NoScript, filename, detect_script_type(filename),
                            d.file_hash, d.status_load, d.load_error_msg, d.args_schema)]

\* UPDATE scripts SET <column>=?, updated_at=? WHERE id=?
UpdateById(rows, id, column, value, now) ==
    {IF row.id = id
     THEN [row EXCEPT !.cols = [@ EXCEPT ![column] = value], !.updated_at = now]
     ELSE row : row \in rows}

CatTick ==
    /\ cat.now < MaxNow
    /\ cat' = [cat EXCEPT !.now = @ + 1]
    /\ UNCHANGED <<catalog, ledger, disk, reg, flight>>

\* scan_once lists the script files; parse_and_register is called for each.
CatScanBegin ==
    /\ reg["scanner"].pc = "idle"
    /\ cat.passes < MaxPasses
    /\ LET OnDisk(f) == f \in disk
       IN  reg' = [reg EXCEPT !["scanner"] =
                      [@ EXCEPT !.pc = "walk", !.todo = SelectSeq(ScanPaths, OnDisk)]]
    /\ cat' = [cat EXCEPT !.passes = @ + 1]
    /\ UNCHANGED <<catalog, ledger, disk, flight>>

\* parse_and_register up to the call of upsert_script: a file that is gone
\* has no entrypoint and is skipped.
CatScanPick ==
    /\ reg["scanner"].pc = "walk"
    /\ LET me == reg["scanner"]
       IN  \/ /\ me.todo = <<>>
              /\ reg' = [reg EXCEPT !["scanner"] = [@ EXCEPT !.pc = "idle"]]
           \/ /\ me.todo # <<>>
              /\ Head(me.todo) \notin disk
              /\ reg' = [reg EXCEPT !["scanner"] = [@ EXCEPT !.todo = Tail(@)]]
           \/ /\ me.todo # <<>>
              /\ Head(me.todo) \in disk
              /\ \E d \in CatDiscoveries :
                    reg' = [reg EXCEPT !["scanner"] =
                               [@ EXCEPT !.pc = "select", !.path = Head(me.todo), !.disc = d]]
    /\ UNCHANGED <<catalog, ledger, disk, flight, cat>>

\* api_create_script: a name not yet on disk is chosen, the file is written,
\* and parse_and_register is called up to upsert_script.
CatCreateScript(filename, d) ==
    /\ reg["create"].pc = "idle"
    /\ filename \notin disk
    /\ disk' = disk \cup {filename}
    /\ reg' = [reg EXCEPT !["create"] = [@ EXCEPT !.pc = "select", !.path = filename, !.disc = d]]
    /\ UNCHANGED <<catalog, ledger, flight, cat>>

\* upsert_script, SELECT id FROM scripts WHERE filename=? (lines 124-127)
CatSelect(r) ==
    /\ reg[r].pc = "select"
    /\ LET found == CatalogRowsOf(reg[r].path) # {}
           raced == /\ ~found
                    /\ \E o \in Registrars \ {r} :
                          reg[o].pc = "write" /\ reg[o].path = reg[r].path /\ ~reg[o].found
       IN  reg' = [reg EXCEPT ![r] = [@ EXCEPT !.pc = "write", !.found = found,
                                               !.raced = IF raced THEN reg[r].path ELSE @]]
    /\ UNCHANGED <<catalog, ledger, disk, flight, cat>>

\* Where the registrar goes after upsert_script returned or raised: the
\* scanner's exception leaves scan_once (scanner_loop catches it), the
\* create route swallows its own.
AfterWrite(me, r, how) ==
    IF r = "scanner"
    THEN IF how = "raise"
         THEN [me EXCEPT !.pc = "idle", !.todo = <<>>, !.last = how]
         ELSE [me EXCEPT !.pc = "walk", !.todo = Tail(@), !.last = how]
    ELSE [me EXCEPT !.pc = "idle", !.last = how]

\* upsert_script, the UPDATE or the INSERT, and the commit (lines 128-148).
\* filename is UNIQUE: an INSERT of a filename that has a row raises
\* sqlite3.IntegrityError.
CatWrite(r) ==
    /\ reg[r].pc = "write"
    /\ LET me == reg[r]
       IN  \/ /\ me.found
              /\ catalog' = UpdateByFilename(catalog, me.path, me.disc, cat.now)
              /\ reg' = [reg EXCEPT ![r] = AfterWrite(me, r, "update")]
              /\ UNCHANGED cat
           \/ /\ ~me.found
              /\ CatalogRowsOf(me.path) = {}
              /\ cat.next_id <= MaxIds
              /\ catalog' = catalog \cup {InsertedRow(cat.next_id, me.path, me.disc, cat.now)}
              /\ reg' = [reg EXCEPT ![r] = AfterWrite(me, r, "insert")]
              /\ cat' = [cat EXCEPT !.next_id = @ + 1]
           \/ /\ ~me.found
              /\ CatalogRowsOf(me.path) # {}
              /\ reg' = [reg EXCEPT ![r] = AfterWrite(me, r, "raise")]
              /\ cat' = [cat EXCEPT !.aborted = @ \/ (r = "scanner" /\ Len(me.todo) > 1)]
              /\ UNCHANGED catalog
    /\ UNCHANGED <<ledger, disk, flight>>

\* PATCH /api/scripts/{id}/alias
CatUpdateAlias(id, alias) ==
    /\ id \in RowIds
    /\ cat.patches < MaxPatches
    /\ catalog' = UpdateById(catalog, id, "alias_name", alias, cat.now)
    /\ cat' = [cat EXCEPT !.patches = @ + 1]
    /\ UNCHANGED <<ledger, disk, reg, flight>>

\* PATCH /api/scripts/{id}/notify
CatToggleNotify(id, enabled) ==
    /\ id \in RowIds
    /\ cat.patches < MaxPatches
    /\ catalog' = UpdateById(catalog, id, "notify_enabled", enabled, cat.now)
    /\ cat' = [cat EXCEPT !.patches = @ + 1]
    /\ UNCHANGED <<ledger, disk, reg, flight>>

\* A run route found the script's row and called run_script with it.
CatRunStart(id) ==
    /\ flight = NoFlight
    /\ id \in RowIds
    /\ Cardinality(ledger) < MaxLedger
    /\ flight' = id
    /\ UNCHANGED <<catalog, ledger, disk, reg, cat>>

\* run_script ends: update_last_run, then insert_run with script['id'].
CatRunFinish(status) ==
    /\ flight # NoFlight
    /\ catalog' = UpdateById(catalog, flight, "status_last_run", status, cat.now)
    /\ ledger' = ledger \cup {[id |-> Cardinality(ledger) + 1, script_id |-> flight,
                               status |-> status]}
    /\ flight' = NoFlight
    /\ UNCHANGED <<disk, reg, cat>>

\* DELETE /api/scripts/{id}: the scripts row is deleted, and the file too
\* when asked for; nothing is done to the runs table.
CatDeleteScript(id, delete_file) ==
    /\ id \in RowIds
    /\ cat.deletes < MaxDeletes
    /\ LET script == CHOOSE row \in catalog : row.id = id
       IN  /\ catalog' = catalog \ {script}
           /\ disk' = IF delete_file THEN disk \ {script.filename} ELSE disk
    /\ cat' = [cat EXCEPT !.deletes = @ + 1]
    /\ UNCHANGED <<ledger, reg, flight>>

InitCatalog ==
    /\ InitExec /\ InitDeps /\ InitScan /\ PureIdle /\ WaitIdle /\ CleanIdle
    /\ CatIdle

CatRest == <<exec_vars, deps_vars, scan_vars, m_in, m_out, h_in, h_out, e_in, e_out,
             wait_vars, clean_vars>>

NextCatalog ==
    \/ CatTick /\ UNCHANGED CatRest
    \/ CatScanBegin /\ UNCHANGED CatRest
    \/ CatScanPick /\ UNCHANGED CatRest
    \/ (\E f \in Paths, d \in CatDiscoveries : CatCreateScript(f, d)) /\ UNCHANGED CatRest
    \/ (\E r \in Registrars : CatSelect(r)) /\ UNCHANGED CatRest
    \/ (\E r \in Registrars : CatWrite(r)) /\ UNCHANGED CatRest
    \/ (\E id \in 1..MaxIds, a \in Aliases : CatUpdateAlias(id, a)) /\ UNCHANGED CatRest
    \/ (\E id \in 1..MaxIds, e \in {0, 1} : CatToggleNotify(id, e)) /\ UNCHANGED CatRest
    \/ (\E id \in 1..MaxIds : CatRunStart(id)) /\ UNCHANGED CatRest
    \/ (\E st \in {1, 2} : CatRunFinish(st)) /\ UNCHANGED CatRest
    \/ (\E id \in 1..MaxIds, df \in BOOLEAN : CatDeleteScript(id, df)) /\ UNCHANGED CatRest

SpecCatalog == InitCatalog /\ [][NextCatalog]_vars

(***************************************************************************)
(* Properties of the executor (Spec)                                       *)
(***************************************************************************)

\* The attempt reached the spawn step (line 131 was executed).
Spawned(a) == child[a].state # "none"
\* The run_script call of the attempt has returned.
Returned(a) == pc[a] = "done"
\* The wait of the attempt returned with the child exited 0 and JSON on stdout.
JsonExit(a) ==
    /\ ~request[a].expired
    /\ child[a].state = "exited"
    /\ child[a].rc = 0
    /\ json_loads(child[a].out) # None

\* C1: every call of run_script that reached the spawn step and has returned
\* has written exactly one row to the runs table, never zero and never two,
\* whichever way the attempt ended.
C1_ExactlyOneRow ==
    \A a \in Threads : Returned(a) /\ Spawned(a) => Cardinality(RowsOf(a)) = 1

\* C2: once run_script has returned the timeout result (code 504) for an
\* attempt, the child process of that attempt is not running.
C2_TimeoutChildNotRunning ==
    \A a \in Threads : results[a].code = 504 => child[a].state # "running"

\* C5 (as claimed): a call whose parameter map lacks a required parameter
\* returns the missing-parameter error naming a parameter the map lacks, and
\* spawns no child, writes no row and never enters the registry.
C5_MissingParamNamed ==
    \A a \in Threads :
        Returned(a) /\ request[a].missing # {} =>
            /\ ~Spawned(a) /\ RowsOf(a) = {}
            /\ results[a].error # NoError
            /\ results[a].error[1] = "missing required param"
            /\ results[a].error[2] \in request[a].missing

\* C5 (amended): a call whose parameter map lacks a required parameter never
\* spawns a child, writes no row and never enters the registry, at any moment
\* of the call; it returns an error without a run id.  The error is the
\* missing-parameter error naming the first absent required parameter in
\* declaration order, unless a file parameter of the map could not be resolved
\* or the conversion of a parameter declared before that one failed; then it
\* is that error.
C5_FailsBeforeSpawn ==
    \A a \in Threads :
        request[a].missing # {} =>
            /\ ~Spawned(a) /\ RowsOf(a) = {}
            /\ \A s \in Scripts : running_processes[s] # a
            /\ job[a].cli = <<>>
            /\ pc[a] \in {"media", "marshal", "done"}
            /\ Returned(a) =>
                 /\ results[a].code = 500 /\ results[a].run_id = NoInt
                 /\ results[a].error # NoError
                 /\ CASE results[a].error[1] = "missing required param" ->
                            results[a].error[2] = request[a].first
                      [] results[a].error[1] = "media param failed" ->
                            results[a].error[2] \in request[a].media
                      [] OTHER -> request[a].earlier # {}

\* C5 witness: a call lacking two required parameters has returned the error
\* naming the first of them.
C5_Witness ==
    \E a \in Threads :
        /\ Returned(a) /\ Cardinality(request[a].missing) = 2
        /\ results[a].error = <<"missing required param", request[a].first>>

C10_JsonSuccess ==
    \A a \in Threads :
        Returned(a) /\ JsonExit(a) =>
            /\ results[a].status = "success"
            /\ results[a].data = json_loads(child[a].out)
            /\ results[a].type = None /\ results[a].url = NoUrl
            /\ \A f \in output_files : f.filename # a
            /\ \A i \in RowsOf(a) :
                 /\ runs[i].output_file_url = NoUrl
                 /\ runs[i].stdout_preview.id = child[a].out.id
                 /\ runs[i].stdout_preview.len <= PREVIEW_LEN

\* The wait of the attempt returned with the child exited 0 and a stdout that
\* does not decode and parse as JSON.
BinaryExit(a) ==
    /\ ~request[a].expired
    /\ child[a].state = "exited"
    /\ child[a].rc = 0
    /\ json_loads(child[a].out) = None

\* save_binary_output raised for the attempt: its row carries the exception.
StoreFailed(a) == \E i \in RowsOf(a) : runs[i].stderr = "OSError"

\* C11: when the child exits 0 with a stdout that is not JSON, and storing the
\* artifact did not fail, run_script has stored exactly the child's bytes as
\* one file and returns the file reference: type file, the size equal to the
\* byte count, no inline payload; every row of the attempt carries the locator.
C11_BinaryArtifact ==
    \A a \in Threads :
        Returned(a) /\ BinaryExit(a) /\ ~StoreFailed(a) =>
            /\ Cardinality({f \in output_files : f.filename = a}) = 1
            /\ BinaryFile(a, child[a].out) \in output_files
            /\ results[a].status = "success" /\ results[a].type = "file"
            /\ results[a].data = None
            /\ results[a].size = child[a].out.len
            /\ results[a].url # NoUrl
            /\ RowsOf(a) # {}
            /\ \A i \in RowsOf(a) : runs[i].output_file_url = results[a].url

\* C12: a terminate_script call for a script id without registry entry answers
\* the 'not running' error in one step that changes neither a child process
\* nor the runs table nor the registry, and leaves the operator idle.
C12_NotRunning ==
    [][\A s \in Scripts :
         (/\ tpc = "idle"
          /\ running_processes[s] = NoAttempt
          /\ \/ tjob'.script = s
             \/ /\ Len(tresults') = Len(tresults) + 1
                /\ tresults'[Len(tresults')].script = s)
         => /\ tresults' = Append(tresults, [script |-> s, status |-> "error",
                                              message |-> "not running"])
            /\ tpc' = "idle" /\ tjob' = tjob
            /\ child' = child /\ runs' = runs
            /\ running_processes' = running_processes]_vars

\* C12 witness: terminate_script answered 'not running' for a script whose run
\* had ended and left its row in the ledger.
C12_Witness ==
    /\ \E i \in 1..Len(tresults) : tresults[i].message = "not running"
    /\ \E a \in Threads : Returned(a) /\ RowsOf(a) # {}

\* C13: a terminate_script call whose kill ended a running child (exit by
\* SIGKILL, within the grace period) answers success, whatever the executor
\* thread waiting on that child does meanwhile.
C13_KillSucceeds ==
    [][(tpc = "del" /\ tpc' = "idle" /\ child[tjob.proc].rc = 0 - 9)
         => tresults'[Len(tresults')].status = "success"]_vars

\* The child of the attempt ended on its own, not by the operator's kill.
OwnExit(a) == child[a].state = "exited" /\ child[a].rc # 0 - 9

\* The row records what the child did: a timeout when the wait expired, else
\* success for exit code 0 (or the exception of a failed artifact store), else
\* failure with the child's stderr.
NaturalRow(a, row) ==
    CASE request[a].expired -> row.status = 3
      [] child[a].rc = 0 -> row.status = 1 \/ (row.status = 2 /\ row.stderr = "OSError")
      [] OTHER -> row.status = 2 /\ row.stderr = child[a].err

C19_ResultShape ==
    \A a \in Threads :
        Returned(a) =>
            /\ results[a].status \in {"success", "error"}
            /\ results[a].duration_ms # NoInt
            /\ results[a].data # None \/ results[a].url # NoUrl \/ results[a].stderr # None
            /\ ~results[a].traceback

\* The invocations of a script that are in flight: registered, blocked in the
\* wait, their child running.
InFlight(s) ==
    {t \in Threads : pc[t] = "wait" /\ job[t].script = s /\ child[t].state = "running"}

\* C20: while invocations of a script are in flight the registry holds an entry
\* for the script, and it is the handle of one of them (the one registered
\* last, since only registration writes a handle).
C20_RegistryLatest ==
    \A s \in Scripts : InFlight(s) # {} => running_processes[s] \in InFlight(s)

\* C21: the registry holds an entry for a script only while the execution
\* that registered it is in flight: that attempt has spawned its child for
\* this script and has not yet passed the finally clause of its wait.  Hence,
\* once every run_script call has returned, the registry is empty.
C21_EntryOnlyInFlight ==
    \A s \in Scripts :
        /\ running_processes[s] # NoAttempt =>
              LET a == running_processes[s]
              IN  /\ pc[a] \in {"wait", "finally"}
                  /\ job[a].script = s
                  /\ Spawned(a)
        /\ (\A t \in Threads : pc[t] \in {"idle", "done"}) => running_processes[s] = NoAttempt

\* C21 witness: two executions of one script have both reached a terminal
\* state, one of them by timeout with its child still running, and the
\* registry has no entry for the script.
C21_Witness ==
    /\ \A t \in Threads : Returned(t) /\ Spawned(t) /\ \E i \in RowsOf(t) : runs[i].script_id = 1
    /\ \E t \in Threads : request[t].expired /\ child[t].state = "running"
    /\ running_processes[1] = NoAttempt

\* The wait of the attempt returned with the child exited non-zero (by itself
\* or killed).
FailedExit(a) ==
    /\ ~request[a].expired
    /\ child[a].state = "exited"
    /\ child[a].rc # 0

\* C22: when the child exits with a non-zero code or is killed, run_script
\* returns an error result carrying the captured stderr, every row of the
\* attempt has status 2 (failure), there is such a row, and no artifact file
\* is written for the attempt.
C22_NonZeroIsFailure ==
    \A a \in Threads :
        Returned(a) /\ FailedExit(a) =>
            /\ results[a].status = "error"
            /\ results[a].stderr = child[a].err
            /\ RowsOf(a) # {}
            /\ \A i \in RowsOf(a) : runs[i].status = 2
            /\ \A f \in output_files : f.filename # a

\* The call returned the error of a file parameter that could not be resolved.
MediaFailed(a) ==
    /\ Returned(a)
    /\ results[a].error # NoError
    /\ results[a].error[1] = "media param failed"

\* C33: while the file parameters of a call are being resolved no argv exists
\* and no child has been started; when argv is built every file parameter the
\* map holds has been resolved to a local path; a call whose resolution failed
\* has spawned no child and written no row.
C33_MediaBeforeArgv ==
    \A a \in Threads :
        /\ pc[a] = "media" => job[a].cli = <<>> /\ ~Spawned(a) /\ RowsOf(a) = {}
        /\ pc[a] = "marshal" =>
               \A k \in MediaParams(job[a].schema, job[a].params) :
                   DictGet(job[a].params, job[a].schema[k].name) = "/local/path"
        /\ MediaFailed(a) => ~Spawned(a) /\ RowsOf(a) = {} /\ results[a].run_id = NoInt

\* C33 witness: one call has returned the resolution error while the other
\* call, whose file parameter was resolved, has spawned its child.
C33_Witness ==
    \E a, b \in Threads :
        /\ MediaFailed(a) /\ ~Spawned(a)
        /\ request[b].spawns = 1 /\ b # a

\* C35: a call of run_script starts at most one child, however it ends.
C35_AtMostOneChild ==
    \A a \in Threads : request[a].spawns <= 1

\* C35 witness: a call that started its child has returned through the except
\* clause after a row was already written, with one child started.
C35_Witness ==
    \E a \in Threads :
        /\ Returned(a) /\ Cardinality(RowsOf(a)) = 2
        /\ request[a].spawns = 1

\* The rows of the runs table written for a script, and the latest of them.
RowsOfScript(s) == {i \in 1..Len(runs) : runs[i].script_id = s}
LatestRow(s) == CHOOSE i \in RowsOfScript(s) : \A k \in RowsOfScript(s) : k <= i

\* C37: whenever no execution is under way, the last-run status of a script
\* that has rows is 1 (success) if and only if its most recently written row
\* has status 1.
C37_LastRunMatchesLatestRow ==
    (\A t \in Threads : pc[t] \in {"idle", "done"}) =>
        \A s \in Scripts :
            RowsOfScript(s) # {} =>
                (status_last_run[s] = 1 <=> runs[LatestRow(s)].status = 1)

(***************************************************************************)
(* Properties of the dependency cache (SpecDeps)                           *)
(***************************************************************************)

\* An install request for the path is between its cache check and its answer.
Installing(cache_path) ==
    \E w \in DWorkers : dpc[w] # "idle" /\ djob[w].path = cache_path

\* C3: a cache directory for which is_cache_valid holds is a completed install
\* (packages in place, manifest written), also while an install is in
\* progress; and no answer hands out the path of an entry that is not complete.
C3_ValidIsComplete ==
    /\ \A p \in CachePaths : is_cache_valid(p) => Complete(p)
    /\ answer.handed => answer.complete

\* C4: after the last finished install of a dependency set failed (package
\* manager failure, timeout or exception), and while no later install of the
\* set is under way, the cache directory of the set does not exist:
\* is_cache_valid is false for it.
C4_FailedStaysInvalid ==
    \A p \in CachePaths :
        last_install[p] = "failed" /\ ~Installing(p) => ~is_cache_valid(p)

\* C8: an install request without the force flag that finds its cache entry
\* valid starts no package manager and answers success, from the cache, with
\* the path of the entry; this holds for every such request, however many
\* were made before.
C8_CacheHitStartsNothing ==
    (answer.kind = "install" /\ ~answer.force /\ answer.valid) =>
        /\ answer.success /\ answer.from_cache /\ answer.handed
        /\ answer.pm = 0
        /\ answer.path \in CachePaths

\* C8 witness: the second request of a run was answered from the cache that
\* the first one filled, and one package manager was started in all.
C8_Witness ==
    /\ answer.kind = "install" /\ ~answer.force /\ answer.valid
    /\ answer.from_cache /\ answer.complete
    /\ ninstalls = 2 /\ Len(pms) = 1

\* The install requests that are waiting on a running package manager of
\* their own for the path.
InstallersOf(cache_path) ==
    {w \in DWorkers : /\ dpc[w] = "communicate"
                      /\ djob[w].path = cache_path
                      /\ pms[djob[w].pm].state = "running"}

\* C15: for one dependency set and runtime, at most one install request at a
\* time has a package manager running on the cache directory of the set.
C15_OneInstaller ==
    \A p \in CachePaths : Cardinality(InstallersOf(p)) <= 1

(***************************************************************************)
(* Properties of the scanner (SpecScan)                                    *)
(***************************************************************************)

\* The catalog marks the script Failed, with a diagnostic.
MarkedFailed(p) ==
    /\ scripts_table[p] # NoScript
    /\ scripts_table[p].status_load = 0
    /\ scripts_table[p].load_error_msg # None

\* C17: when a scan is over, parse_and_register has been called for every
\* script file the walk found, and every script whose processing failed in
\* that scan is marked Failed with a diagnostic.
C17_FailureIsolated ==
    scan_log.ended =>
        /\ scan_log.visited = scan_log.found
        /\ \A p \in scan_log.troubled : MarkedFailed(p)

\* C18: no discovery subprocess is started for a file whose content hash is
\* the recorded one, and no update changes the load state or the schema of a
\* row whose hash it leaves unchanged.
C18_UnchangedSkipped ==
    scan_log.rediscovered = {} /\ scan_log.rewritten = {}

\* C27: every step of an install, of its package manager, of the cleanup of
\* a failed install and of a forced reinstall changes at most the directory
\* of the dependency set it works for; every other cache directory is as it
\* was.  The acting worker is the one whose position changes; a step that
\* moves no worker is a write of a running package manager.
C27_OwnDirectoryOnly ==
    [][\A p \in CachePaths :
          cache_dirs'[p] # cache_dirs[p] =>
              \/ \E w \in DWorkers : dpc'[w] # dpc[w] /\ djob[w].path = p
              \/ /\ dpc' = dpc
                 /\ \E i \in 1..Len(pms) : pms[i].state = "running" /\ pms[i].path = p
                 /\ \A q \in CachePaths \ {p} : cache_dirs'[q] = cache_dirs[q]]_vars

\* C27 witness: the install of one dependency set failed and its directory
\* was cleaned up, while the directory of another set is complete.
C27_Witness ==
    \E p, q \in CachePaths :
        /\ p # q
        /\ last_install[p] = "failed" /\ cache_dirs[p] = NoDir
        /\ last_install[q] = "succeeded" /\ Complete(q)

\* The package managers a worker has started that are still running.  The
\* requests a worker makes one after the other are the iterations of the loop
\* of batch_install_dependencies (script_env_manager.py 213-217).
RunningOf(w) == {i \in 1..Len(pms) : pms[i].by = w /\ pms[i].state = "running"}

\* C31: of the package managers started by one batch, at most one is running
\* at any moment.
C31_OneAtATime ==
    \A w \in DWorkers : Cardinality(RunningOf(w)) <= 1

(***************************************************************************)
(* Properties of the pure functions (SpecMarshal, SpecHash)                *)
(***************************************************************************)

\* The flags of an argv: its odd positions.
FlagsOf(cli) == [i \in 1..(Len(cli) \div 2) |-> cli[2 * i - 1]]

\* The flags of the declared parameters the map holds, in declaration order.
RECURSIVE DeclaredFlags(_, _)
DeclaredFlags(args_schema, http_params) ==
    IF args_schema = <<>> THEN <<>>
    ELSE (IF DictHas(http_params, Head(args_schema).name)
          THEN <<Head(args_schema).flag>> ELSE <<>>)
         \o DeclaredFlags(Tail(args_schema), http_params)

\* C6: whatever the insertion order of the parameter map, build_cli_args
\* gives one and the same answer for a schema and the contents of a map, and
\* the flags of the argv are those of the parameters the map holds, in the
\* order the schema declares them.
C6_SchemaOrder ==
    /\ Cardinality(m_out) <= 1
    /\ \A r \in m_out : r.ok => FlagsOf(r.cli) = DeclaredFlags(m_in.schema, m_in.params)

\* C6 witness: a map holding three declared parameters was passed in the
\* reverse of the declaration order and gave an argv of three flags.
C6_Witness ==
    /\ Len(m_in.schema) = 3 /\ Len(m_in.params) = 3
    /\ \A i \in 1..3 : m_in.params[i][1] = m_in.schema[4 - i].name
    /\ \E r \in m_out : r.ok /\ Len(r.cli) = 6

\* C7: every order of a dependency list gives the same cache key, hence the
\* same cache path for a runtime, also when entries share a package name.
C7_PermutationInvariant == Cardinality(h_out) <= 1

\* The keys of the parameter map that the schema does not declare.
Undeclared(args_schema, http_params) ==
    {http_params[i][1] : i \in 1..Len(http_params)}
        \ {args_schema[k].name : k \in 1..Len(args_schema)}

\* C16: build_cli_args rejects a parameter map holding a key the schema does
\* not declare: it gives no argv but the undeclared-parameter error.
C16_UndeclaredRejected ==
    \A r \in m_out :
        Undeclared(m_in.schema, m_in.params) # {} =>
            ~r.ok /\ r.error = "undeclared param"

\* C23: when a present int or float parameter does not parse as a number, the
\* error build_cli_args raises names the offending parameter (its raw value
\* too, which the message of int() and float() does carry).
C23_TypeMismatchNamesParam ==
    \A r \in m_out :
        ~r.ok /\ r.error \in {"invalid literal for int()", "could not convert string to float"} =>
            \E i \in 1..Len(m_in.schema) :
                /\ m_in.schema[i].type \in {"int", "float"}
                /\ r.arg = m_in.schema[i].name

\* The raw values that, ignoring case, are one of true, 1, yes.
C24_Truthy == {"Yes", "TRUE", "True", "1"}

\* C24: for a present bool parameter the argv token after its flag is "1"
\* when the raw value, ignoring case, is one of true, 1, yes, and "0" for
\* every other string; the flag is there whenever an argv is built.
C24_BoolCanonical ==
    \A r \in m_out :
        r.ok =>
            \A i \in 1..Len(m_in.schema) :
                LET meta == m_in.schema[i]
                IN  meta.type = "bool" /\ DictHas(m_in.params, meta.name) =>
                        /\ \E k \in 1..(Len(r.cli) \div 2) : r.cli[2 * k - 1] = meta.flag
                        /\ \A k \in 1..(Len(r.cli) \div 2) :
                               r.cli[2 * k - 1] = meta.flag =>
                                   r.cli[2 * k] = IF DictGet(m_in.params, meta.name) \in C24_Truthy
                                                  THEN "1" ELSE "0"

\* C24 witness: an upper-case TRUE was marshalled to the token "1", or the
\* string "on", which is none of the three spellings, to the token "0".
C24_Witness ==
    \E r \in m_out :
        /\ r.ok
        /\ DictHas(m_in.params, "c")
        /\ DictGet(m_in.params, "c") \in {"TRUE", "on"}
        /\ \E k \in 1..(Len(r.cli) \div 2) :
               /\ r.cli[2 * k - 1] = "--c"
               /\ r.cli[2 * k] = IF DictGet(m_in.params, "c") = "TRUE" THEN "1" ELSE "0"

\* C25: a run request for a script whose load state is Failed (status_load
\* 0, the most recent discovery failed) spawns no child process.
C25_FailedUnusable ==
    served # NoServed /\ served.status_load = 0 => ~served.spawned

\* C26: a row is Loaded only with a schema that is a JSON object of parameter
\* specifications, and a row that is Failed holds no schema.
C26_LoadedOnlyWithSchema ==
    \A p \in Paths :
        LET row == scripts_table[p]
        IN  row # NoScript =>
                /\ row.status_load = 1 =>
                       row.args_schema.json /\ row.args_schema.doc # <<>> /\ row.args_schema.doc[1] = "schema"
                /\ row.status_load = 0 => row.args_schema = NoText

(***************************************************************************)
(* Properties of the child environments (SpecEnv)                          *)
(***************************************************************************)

\* The script's cache entry for the runtime of its type, and whether it is valid.
OwnCachePath == CachePathOf(e_in.script, IF e_in.script.type = "python" THEN "python" ELSE "nodejs")
OwnCacheValid == cache_dirs[OwnCachePath].exists
\* The value the server had for the search-path variable of the script's runtime.
OwnAmbient == IF e_in.script.type = "python" THEN e_in.PYTHONPATH ELSE e_in.NODE_PATH
\* The same variable in the export.
OwnExported ==
    IF e_in.script.type = "python" THEN e_out.export.env_vars.PYTHONPATH
    ELSE e_out.export.env_vars.NODE_PATH

\* C28 as stated: for a script with a valid cache entry the export sets the
\* search-path variable of its runtime to the cache path followed by the whole
\* pre-existing value, and to exactly the cache path when there was none.
C28_Original ==
    e_out.export.done /\ OwnCacheValid =>
        OwnExported = Var(<<OwnCachePath>> \o EnvGet(OwnAmbient))

\* C28, amended: PYTHONPATH is the cache path followed by the whole
\* pre-existing value; NODE_PATH is the node_modules directory inside the
\* cache path followed by the whole pre-existing value, and is exported only
\* when that directory exists; the child's environment carries the exported
\* value.
C28_ExportPrepends ==
    e_out.export.done /\ OwnCacheValid =>
        /\ e_in.script.type = "python" =>
              OwnExported = Var(<<OwnCachePath>> \o EnvGet(OwnAmbient))
        /\ e_in.script.type = "js" /\ cache_dirs[OwnCachePath].pkgs # "none" =>
              OwnExported = Var(<<OwnCachePath \o <<"node_modules">>>> \o EnvGet(OwnAmbient))
        /\ e_in.script.type = "js" /\ cache_dirs[OwnCachePath].pkgs = "none" =>
              ~OwnExported.set
        /\ OwnExported.set =>
              OwnExported = (IF e_in.script.type = "python" THEN e_out.export.env.PYTHONPATH
                             ELSE e_out.export.env.NODE_PATH)

\* C28 witness: a python script with a valid cache entry was exported under an
\* ambient PYTHONPATH of two elements, and the exported value has three.
C28_Witness ==
    /\ e_out.export.done
    /\ e_in.script.type = "python"
    /\ OwnCacheValid
    /\ Len(EnvGet(e_in.PYTHONPATH)) = 2
    /\ Len(e_out.export.env_vars.PYTHONPATH.elems) = 3

\* C29: the child of run_script has the script's directory as working
\* directory, and its search-path variables are the ambient ones merged with
\* the export of the cache manager for the script.
C29_RunUsesExport ==
    e_out.run.done =>
        /\ e_out.run.cwd = "script dir"
        /\ e_out.run.env.PYTHONPATH = execute_script_with_env(e_in.script).env.PYTHONPATH
        /\ e_out.run.env.NODE_PATH = execute_script_with_env(e_in.script).env.NODE_PATH

\* C30: discovery starts its subprocess with the environment variables and
\* the working directory an execution through run_script uses.
C30_DiscoveryAsExecution ==
    e_out.discover.done /\ e_out.run.done =>
        /\ e_out.discover.env = e_out.run.env
        /\ e_out.discover.cwd = e_out.run.cwd

(***************************************************************************)
(* Properties of the waits (SpecWait, SpecWaitLive)                        *)
(***************************************************************************)

\* C34: every operation that waits on a child eventually returns to its
\* caller, whatever the child and the holders of its pipes do.
C34_WaitsReturn == <>(wresult.returned)

\* C40: execute_script_with_env reports timeout = true exactly when the wait
\* expired and the child was killed by it.
C40_TimeoutIffKilled ==
    wop = "execute_script_with_env" /\ wresult.returned =>
        (wresult.timeout <=> (wresult.expired /\ wresult.killed))


(***************************************************************************)
(* Properties of the cache eviction (SpecClean)                            *)
(***************************************************************************)

\* The directories of the listing whose age exceeds the horizon.
OverHorizon(runtime) ==
    {c \in SlotsOf(k_in.listing, runtime) :
        k_in.listing[c].isdir /\ k_in.listing[c].age > k_in.max_age_days}

\* The directories that cleanup_cache took away.
TakenAway(runtime) ==
    {c \in SlotsOf(k_in.listing, runtime) : k_out.listing[c] = NoCacheEntry}

\* C32, first part: exactly the directories whose age exceeds the horizon are
\* removed, and every other entry is as it was.
C32_RemovesExactlyExpired ==
    k_out # NoCleanOutput =>
        /\ \A r \in Runtimes : TakenAway(r) = OverHorizon(r)
        /\ \A c \in CacheSlots :
              c \notin OverHorizon(c[1]) => k_out.listing[c] = k_in.listing[c]

\* C32, second part: the report gives, for each runtime, the number of
\* directories removed and the size reclaimed in that runtime.
C32_ReportsPerRuntime ==
    k_out # NoCleanOutput =>
        \A r \in Runtimes :
            /\ k_out.cleaned[r] = Cardinality(TakenAway(r))
            /\ k_out.cleaned.total_size_mb = SumSizes(k_in.listing, TakenAway(r))

\* C32: cleanup_cache removes exactly the cache directories whose age exceeds
\* the retention horizon, leaves every younger entry untouched, and reports
\* for each runtime the number of directories removed and the size reclaimed.
C32_Eviction == C32_RemovesExactlyExpired /\ C32_ReportsPerRuntime


(***************************************************************************)
(* Properties of the catalog and the ledger (SpecCatalog)                  *)
(***************************************************************************)

\* Registrar r's upsert_script takes its UPDATE branch in this step.
RegistrarUpdates(r) ==
    reg[r].pc = "write" /\ reg[r].found /\ reg'[r].pc # "write"

\* C36: a Registrar update for one path changes only that path's row, and in
\* it only file_hash, status_load, load_error_msg, args_schema and updated_at:
\* id, alias, notify flag, last-run status and creation time of the row, and
\* every other row, are unchanged, and no row appears or disappears.
C36_UpdateFrame ==
    [][\A r \in Registrars : RegistrarUpdates(r) =>
          /\ RowIds' = RowIds
          /\ Cardinality(catalog') = Cardinality(catalog)
          /\ ledger' = ledger
          /\ \A row \in catalog : \E new \in catalog' :
                /\ new.id = row.id
                /\ new.filename = row.filename
                /\ new.created_at = row.created_at
                /\ new.cols.alias_name = row.cols.alias_name
                /\ new.cols.notify_enabled = row.cols.notify_enabled
                /\ new.cols.status_last_run = row.cols.status_last_run
                /\ new.cols.script_type = row.cols.script_type
                /\ row.filename # reg[r].path => new = row]_vars

\* A registrar has updated a row that carries an alias given through the API
\* and a later update time, next to the row of another script.
C36_Witness ==
    \E r \in Registrars : \E row \in catalog :
        /\ reg[r].last = "update" /\ reg[r].pc # "write"
        /\ row.filename = reg[r].path
        /\ row.cols.alias_name \in Aliases
        /\ row.cols.file_hash = reg[r].disc.file_hash
        /\ row.updated_at > row.created_at
        /\ \E other \in catalog : other.filename # row.filename

\* C38: when the scanner and a create request register the same new path
\* concurrently, the path ends with exactly one row, neither registration
\* raises, and the scanner's pass over the remaining scripts is not aborted.
C38_ConcurrentRegistration ==
    \A r \in Registrars : reg[r].raced # "" =>
        /\ \A o \in Registrars : reg[o].last # "raise"
        /\ ~cat.aborted
        /\ Cardinality(CatalogRowsOf(reg[r].raced)) <= 1
        /\ (cat.deletes = 0 /\ \A o \in Registrars : reg[o].pc \notin {"select", "write"})
              => Cardinality(CatalogRowsOf(reg[r].raced)) = 1

\* C39: every row of the ledger references a script that has a row in the
\* catalog, also when the script is deleted while an execution is in flight.
C39_LedgerReferencesCatalog ==
    \A run \in ledger : run.script_id \in RowIds

====
